---- MODULE Spec2Model ----
(***************************************************************************)
(* Batch orchestration engine of NanobananaPro_batch: combination          *)
(* selection with the dedup ledger (batch_processor.py), the persistent    *)
(* store (database.py), the serial run loop with stop/pause flags          *)
(* (batch_processor.py run_batch), the remote client's create-and-wait     *)
(* (api_client.py) and the recheck operation (app.py check_all_tasks).     *)
(*                                                                         *)
(* Strings are sequences: a message is its sequence of characters, a path  *)
(* is <<directory, stem, suffix>>, and the empty string "" and None are    *)
(* both the empty sequence (the code only ever tests them for truthiness   *)
(* and never stores "" in a nullable column).                              *)
(***************************************************************************)
EXTENDS Naturals, Sequences, FiniteSets, TLC

VARIABLES
  config,             \* the BatchConfig built from the form input
  service,            \* what the remote service answers in this behaviour
  jobs,               \* table batch_jobs, row id = index
  tasks,              \* table generation_tasks, row id = index
  used_combinations,  \* table used_combinations (the dedup ledger), in insertion order
  files,              \* file system: outfit files present, names in the error folder
  cache,              \* PromptSource._contents_cache
  stop_flag,          \* BatchProcessor._stop_flag
  pause_flag,         \* BatchProcessor._pause_flag
  current_job_id,     \* BatchProcessor._current_job_id
  progress_callback,  \* BatchProcessor._progress_callback is set
  pc,                 \* position of the worker thread
  job_id,             \* the worker's job
  prep,               \* locals of prepare_tasks / _select_combination
  run,                \* locals of run_batch
  result,             \* the GenerationResult of the remote call in progress
  hist,               \* history: runs started, tuple each task was built from,
                      \* counters at the start of the run, dispatches after stop(),
                      \* whether the exception handler of the run wrote the status,
                      \* the (job, hash) pairs handed to the ledger directly,
                      \* whether a read of a prompt file has failed,
                      \* the warnings of prepare_tasks, the request delays
                      \* taken in the run
  probe               \* a caller outside the worker thread: the arguments and the
                      \* result of one call of a pure function, or the locals of
                      \* the callers of _select_combination

vars == << config, service, jobs, tasks, used_combinations, files, cache, stop_flag,
           pause_flag, current_job_id, progress_callback, pc, job_id, prep,
           run, result, hist, probe >>

----------------------------------------------------------------------------
(* Bounds of the model *)

MaxCount == 2
MaxRuns == 2
MaxMarks == 3
MaxJobs == 2

(* Program constants *)

max_attempts == 100

NULL == <<>>

----------------------------------------------------------------------------
(* Inputs: files on disk and form values *)

F1 == <<"faces", "f1", ".png">>
F2 == <<"faces", "f2", ".png">>
F3 == <<"faces", "f3", ".png">>
B1 == <<"backgrounds", "b1", ".png">>
O1 == <<"outfits", "o1", ".png">>
O2 == <<"outfits", "o2", ".png">>
P1 == <<"prompts", "p1", ".txt">>
P2 == <<"prompts", "p2", ".txt">>

TextTemplate == <<"txt">>
OutfitTemplate == <<"{outfit}", "look">>

\* what Path.read_text().strip() yields for each prompt file
DiskContent(path) == IF path = P1 THEN TextTemplate ELSE OutfitTemplate

ErrHTTP503 == <<"H","T","T","P"," ","5","0","3">>
ErrPolicy == <<"c","o","n","t","e","n","t"," ","p","o","l","i","c","y"," ","v","i","o","l","a","t","i","o","n",":"," ","e","x","p","l","i","c","i","t"," ","i","m","a","g","e","r","y">>
ErrTimeout == <<"T","i","m","e","o","u","t"," ","a","f","t","e","r"," ","3","0","0",".","0","s">>
ErrUnknown == <<"U","n","k","n","o","w","n"," ","e","r","r","o","r">>
ErrTaskFailed == <<"T","a","s","k"," ","f","a","i","l","e","d">>
MsgNSFW == <<"N","S","F","W"," ","c","o","n","t","e","n","t"," ","d","e","t","e","c","t","e","d">>
MsgHTTP500 == <<"H","T","T","P"," ","5","0","0"," ","I","n","t","e","r","n","a","l"," ","S","e","r","v","e","r"," ","E","r","r","o","r">>

BatchConfig(n, tmpl, face, outfit, bg, prompts, dup, err) ==
  [ total_count |-> n, prompt_template |-> tmpl,
    face_source |-> face, outfit_source |-> outfit,
    background_source |-> bg, prompt_source |-> prompts,
    allow_duplicate_combinations |-> dup, error_folder |-> err ]

Configs ==
  { BatchConfig(n, tmpl, <<>>, outfit, <<>>, <<>>, dup, err) :
      n \in 0..MaxCount, tmpl \in {NULL, TextTemplate},
      outfit \in {<<>>, <<O1>>},
      dup \in BOOLEAN, err \in {NULL, <<"errors">>} }

\* the answers of the remote service: the errors of a refused create_task, the
\* errors of a failed task, whether a completed task carries a result URL, and
\* whether the polling can time out; ready is FALSE when initialize_api has not
\* built the client and the processor (app.py globals api, processor)
Services ==
  { [ refusals |-> {ErrHTTP503}, failures |-> {ErrPolicy}, with_url |-> TRUE,
      timeouts |-> FALSE, ready |-> TRUE ],
    [ refusals |-> {NULL}, failures |-> {ErrTaskFailed}, with_url |-> FALSE,
      timeouts |-> TRUE, ready |-> TRUE ],
    [ refusals |-> {}, failures |-> {}, with_url |-> FALSE,
      timeouts |-> FALSE, ready |-> FALSE ] }

----------------------------------------------------------------------------
(* Pure helpers *)

Stem(path) == path[2]
Name(path) == << path[2], path[3] >>

RECURSIVE Flatten(_)
Flatten(ss) == IF ss = <<>> THEN <<>> ELSE Head(ss) \o Flatten(Tail(ss))

\* faulty variant: the exclude argument is ignored
get_random_NoExclusion(source_files, exclude) ==
  IF source_files = <<>> THEN {NULL}
  ELSE { source_files[k] : k \in DOMAIN source_files }

\* the results random.choice can give for get_random(exclude); NULL is None
get_random(source_files, exclude) ==
  IF source_files = <<>> THEN {NULL}
  ELSE LET available == { source_files[k] : k \in { n \in DOMAIN source_files :
                              exclude = {} \/ source_files[n] \notin exclude } }
       IN IF available = {} THEN {NULL} ELSE available

\* md5 of "face|outfit|background|prompt_file"; md5 is taken to be injective,
\* so the hash is the joined string
_generate_combination_hash(face, outfit, background, prompt_file) ==
  face \o <<"|">> \o outfit \o <<"|">> \o background \o <<"|">> \o prompt_file

_build_prompt(template, face, outfit, background) ==
  LET value(p) == IF p = NULL THEN <<>> ELSE << Stem(p) >>
      repl(tok) == IF tok = "{face}" THEN value(face)
                   ELSE IF tok = "{outfit}" THEN value(outfit)
                   ELSE IF tok = "{background}" THEN value(background)
                   ELSE << tok >>
  IN Flatten([ k \in DOMAIN template |-> repl(template[k]) ])

UpperCase == <<"A","B","C","D","E","F","G","H","I","J","K","L","M",
               "N","O","P","Q","R","S","T","U","V","W","X","Y","Z">>
LowerCase == <<"a","b","c","d","e","f","g","h","i","j","k","l","m",
               "n","o","p","q","r","s","t","u","v","w","x","y","z">>

Lower(c) ==
  IF \E k \in DOMAIN UpperCase : UpperCase[k] = c
    THEN LowerCase[CHOOSE k \in DOMAIN UpperCase : UpperCase[k] = c]
    ELSE c

Upper(c) ==
  IF \E k \in DOMAIN LowerCase : LowerCase[k] = c
    THEN UpperCase[CHOOSE k \in DOMAIN LowerCase : LowerCase[k] = c]
    ELSE c

Contains(s, kw) ==
  \E k \in 0..Len(s) :
     /\ k + Len(kw) <= Len(s)
     /\ \A n \in 1..Len(kw) : s[k + n] = kw[n]

content_error_keywords ==
  << <<"n","s","f","w">>,
     <<"c","o","n","t","e","n","t"," ","p","o","l","i","c","y">>,
     <<"c","o","n","t","e","n","t","_","p","o","l","i","c","y">>,
     <<"p","o","l","i","c","y"," ","v","i","o","l","a","t","i","o","n">>,
     <<"i","n","a","p","p","r","o","p","r","i","a","t","e">>,
     <<"s","a","f","e","t","y">>,
     <<"m","o","d","e","r","a","t","i","o","n">>,
     <<"b","a","n","n","e","d">>,
     <<"p","r","o","h","i","b","i","t","e","d">>,
     <<"e","x","p","l","i","c","i","t">>,
     <<"a","d","u","l","t"," ","c","o","n","t","e","n","t">>,
     <<"v","i","o","l","a","t","e","s">>,
     <<"n","o","t"," ","a","l","l","o","w","e","d">>,
     <<"r","e","s","t","r","i","c","t","e","d">> >>

\* faulty variant: every error text counts as a content-policy error
_is_content_policy_error_Any(error_message) == error_message # NULL

\* faulty variant: the message is not lower-cased
_is_content_policy_error_CaseSensitive(error_message) ==
  IF error_message = NULL THEN FALSE
  ELSE \E n \in DOMAIN content_error_keywords :
          Contains(error_message, content_error_keywords[n])

_is_content_policy_error(error_message) ==
  IF error_message = NULL THEN FALSE
  ELSE LET error_lower == [ k \in DOMAIN error_message |-> Lower(error_message[k]) ]
       IN \E n \in DOMAIN content_error_keywords :
             Contains(error_lower, content_error_keywords[n])

----------------------------------------------------------------------------
(* The persistent store (database.py); every operation is one statement on   *)
(* the table it is given                                                    *)

create_batch_job(db_jobs, total_count) ==
  Append(db_jobs, [ status |-> "pending", total_count |-> total_count,
                    completed_count |-> 0, failed_count |-> 0 ])

update_batch_job_status(db_jobs, id, status) ==
  [ db_jobs EXCEPT ![id].status = status ]

\* faulty variant: only successes are counted
increment_batch_job_count_CompletedOnly(db_jobs, id, completed) ==
  IF completed
    THEN [ db_jobs EXCEPT ![id].completed_count = @ + 1 ]
    ELSE db_jobs

increment_batch_job_count(db_jobs, id, completed) ==
  IF completed
    THEN [ db_jobs EXCEPT ![id].completed_count = @ + 1 ]
    ELSE [ db_jobs EXCEPT ![id].failed_count = @ + 1 ]

create_generation_task(db_tasks, batch_job_id, face_path, outfit_path, background_path, prompt) ==
  Append(db_tasks, [ batch_job_id |-> batch_job_id, api_request_id |-> NULL,
                     status |-> "pending", face_image_path |-> face_path,
                     outfit_image_path |-> outfit_path,
                     background_image_path |-> background_path,
                     prompt |-> prompt, result_url |-> NULL,
                     local_path |-> NULL, error_message |-> NULL ])

\* only the truthy arguments are written
update_task_status(db_tasks, task_id, status, api_request_id, result_url, local_path, error_message) ==
  [ db_tasks EXCEPT ![task_id] =
      [ @ EXCEPT !.status = status,
                 !.api_request_id = IF api_request_id # NULL THEN api_request_id ELSE @,
                 !.result_url = IF result_url # NULL THEN result_url ELSE @,
                 !.local_path = IF local_path # NULL THEN local_path ELSE @,
                 !.error_message = IF error_message # NULL THEN error_message ELSE @ ] ]

\* faulty variant: ORDER BY id DESC
RECURSIVE OrderById_Descending(_)
OrderById_Descending(ids) ==
  IF ids = {} THEN <<>>
  ELSE LET first == CHOOSE t \in ids : \A u \in ids : t >= u
       IN << first >> \o OrderById_Descending(ids \ { first })

\* ORDER BY id: the ids of a set of rows in ascending order
RECURSIVE OrderById(_)
OrderById(ids) ==
  IF ids = {} THEN <<>>
  ELSE LET first == CHOOSE t \in ids : \A u \in ids : t <= u
       IN << first >> \o OrderById(ids \ { first })

\* faulty variant: every unfinished task is selected (status NOT IN ('completed', 'failed'))
get_pending_tasks_Unfinished(db_tasks, batch_job_id) ==
  LET sel(row) == /\ row.batch_job_id = batch_job_id
                  /\ row.status \notin {"completed", "failed"}
  IN OrderById({ t \in DOMAIN db_tasks : sel(db_tasks[t]) })

\* faulty variant: failed tasks are selected again (status IN ('pending', 'failed'))
get_pending_tasks_WithFailed(db_tasks, batch_job_id) ==
  LET sel(row) == /\ row.batch_job_id = batch_job_id
                  /\ row.status \in {"pending", "failed"}
  IN OrderById({ t \in DOMAIN db_tasks : sel(db_tasks[t]) })

get_pending_tasks(db_tasks, batch_job_id) ==
  LET sel(row) == row.batch_job_id = batch_job_id /\ row.status = "pending"
  IN OrderById({ t \in DOMAIN db_tasks : sel(db_tasks[t]) })

\* faulty variant: the status filter is missing
get_processing_tasks_AnyStatus(db_tasks, batch_job_id) ==
  LET sel(row) == /\ row.batch_job_id = batch_job_id
                  /\ row.api_request_id # NULL
  IN OrderById({ t \in DOMAIN db_tasks : sel(db_tasks[t]) })

get_processing_tasks(db_tasks, batch_job_id) ==
  LET sel(row) == /\ row.batch_job_id = batch_job_id
                  /\ row.status \in {"processing", "pending"}
                  /\ row.api_request_id # NULL
  IN OrderById({ t \in DOMAIN db_tasks : sel(db_tasks[t]) })

get_incomplete_tasks(db_tasks, batch_job_id) ==
  LET sel(row) == /\ row.batch_job_id = batch_job_id
                  /\ row.status \notin {"completed", "failed"}
  IN OrderById({ t \in DOMAIN db_tasks : sel(db_tasks[t]) })

\* faulty variant: the query has no batch_job_id condition
is_combination_used_AnyJob(batch_job_id, combination_hash) ==
  \E k \in DOMAIN used_combinations :
     used_combinations[k].combination_hash = combination_hash

is_combination_used(batch_job_id, combination_hash) ==
  \E k \in DOMAIN used_combinations :
     /\ used_combinations[k].batch_job_id = batch_job_id
     /\ used_combinations[k].combination_hash = combination_hash

\* faulty variant: the table has no UNIQUE constraint
mark_combination_used_NoUnique(batch_job_id, combination_hash, face, outfit, background) ==
  Append(used_combinations,
         [ batch_job_id |-> batch_job_id, combination_hash |-> combination_hash,
           face_image |-> face, outfit_image |-> outfit,
           background_image |-> background ])

\* UNIQUE(batch_job_id, combination_hash): the IntegrityError is swallowed
mark_combination_used(batch_job_id, combination_hash, face, outfit, background) ==
  IF is_combination_used(batch_job_id, combination_hash)
    THEN used_combinations
    ELSE Append(used_combinations,
                [ batch_job_id |-> batch_job_id, combination_hash |-> combination_hash,
                  face_image |-> face, outfit_image |-> outfit,
                  background_image |-> background ])

----------------------------------------------------------------------------
(* Initial state: the processor, the store and the API client constructed   *)
(* (app.py initialize_api), the form filled in                              *)

NoSel == [ face |-> NULL, outfit |-> NULL, background |-> NULL,
           prompt_file |-> NULL, prompt_content |-> NULL, fallback |-> FALSE ]

PrepInit == [ i |-> 0, created_count |-> 0, used_prompts |-> {},
              attempt |-> 0, sel |-> NoSel ]

NoResults == [ total |-> 0, completed |-> 0, failed |-> 0, stopped |-> FALSE,
               moved_images |-> 0 ]

RunInit == [ tasks |-> <<>>, i |-> 0, results |-> NoResults ]

NoResult == [ success |-> FALSE, task_id |-> NULL, status |-> "unknown",
              image_url |-> NULL, error |-> NULL, polled |-> FALSE,
              notified |-> "none" ]

SourceFiles(source) == { source[k] : k \in DOMAIN source }

NoProbe == [ fn |-> "none" ]

\* the store empty, the processor and the worker as constructed
\* what the error folder holds before the session: nothing, or a file left by an
\* earlier session under the name of an outfit image (examined where the probe
\* follows the outcomes of the tasks)
StoredErrors == IF probe.fn = "outcome" THEN { {}, { Name(O1) } } ELSE { {} }

Constructed ==
  /\ jobs = <<>>
  /\ tasks = <<>>
  /\ used_combinations = <<>>
  /\ files \in { [ src |-> SourceFiles(config.outfit_source), err |-> e ] :
                   e \in StoredErrors }
  /\ cache = {}
  /\ stop_flag = FALSE
  /\ pause_flag = FALSE
  /\ current_job_id = 0
  /\ progress_callback = FALSE
  /\ pc = "ready"
  /\ job_id = 0
  /\ prep = PrepInit
  /\ run = RunInit
  /\ result = NoResult
  /\ hist = [ runs |-> 0, built |-> <<>>, consulted |-> FALSE, base |-> 0, late |-> 0,
              handled |-> "none", marked |-> <<>>, unread |-> FALSE,
              warnings |-> <<>>, delays |-> 0, kept |-> files.err,
              torn |-> FALSE ]

Init ==
  /\ config \in Configs
  /\ service \in Services
  /\ config.error_folder # NULL =>
        config.outfit_source # <<>> /\ ErrPolicy \in service.failures
  /\ probe = NoProbe
  /\ Constructed

\* positions at which the worker thread has left start_batch_generation or run_batch
Idle == { "rejected", "aborted", "returned", "raised" }

\* the listener can raise only if one is registered
ListenerRaises == IF progress_callback THEN BOOLEAN ELSE {FALSE}

----------------------------------------------------------------------------
(* start_batch_generation, create_batch_job, prepare_tasks                  *)

\* faulty variant: the form is validated but not the client
StartBatch_NoClientCheck ==
  /\ pc = "ready"
  /\ pc' = IF (config.prompt_template = NULL /\ config.prompt_source = <<>>)
              \/ config.total_count < 1
             THEN "rejected" ELSE "create"
  /\ UNCHANGED << probe, config, service, jobs, tasks, used_combinations, files, cache,
                  stop_flag, pause_flag, current_job_id, progress_callback, job_id, prep,
                  run, result, hist >>

\* lines 313-327 of app.py: the client and the form are validated
StartBatch ==
  /\ pc = "ready"
  /\ pc' = IF ~service.ready
              \/ (config.prompt_template = NULL /\ config.prompt_source = <<>>)
              \/ config.total_count < 1
             THEN "rejected" ELSE "create"
  /\ UNCHANGED << probe, config, service, jobs, tasks, used_combinations, files, cache, stop_flag,
                  pause_flag, current_job_id, progress_callback, job_id, prep,
                  run, result, hist >>

CreateJob ==
  /\ pc = "create"
  /\ jobs' = create_batch_job(jobs, config.total_count)
  /\ job_id' = Len(jobs) + 1
  /\ cache' = {}
  /\ prep' = PrepInit
  /\ pc' = "select"
  /\ UNCHANGED << probe, config, service, tasks, used_combinations, files, stop_flag, pause_flag,
                  current_job_id, progress_callback, run, result, hist >>

\* PromptSource._read_file: the content and the cache after the read; a read
\* that fails yields "" and caches nothing
_read_file(file_path) ==
  IF \E e \in cache : e[1] = file_path
    THEN { [ content |-> (CHOOSE e \in cache : e[1] = file_path)[2], cache |-> cache ] }
    ELSE { [ content |-> DiskContent(file_path),
             cache |-> cache \cup { << file_path, DiskContent(file_path) >> } ],
           [ content |-> NULL, cache |-> cache ] }

\* faulty variant: the prompt is drawn without the exclusion set
PromptDraws_NoExclusion ==
  IF config.prompt_source # <<>>
    THEN UNION { { [ file |-> f, content |-> r.content, cache |-> r.cache ] :
                     r \in _read_file(f) } : f \in get_random(config.prompt_source, {}) }
    ELSE { [ file |-> NULL, content |-> config.prompt_template, cache |-> cache ] }

\* faulty variant: no second draw when the draw with exclusion returns None
PromptDraws_NoRetry ==
  IF config.prompt_source # <<>>
    THEN LET first == get_random(config.prompt_source, prep.used_prompts)
         IN IF first = {NULL}
              THEN { [ file |-> NULL, content |-> NULL, cache |-> cache ] }
              ELSE UNION { { [ file |-> f, content |-> r.content, cache |-> r.cache ] :
                               r \in _read_file(f) } : f \in first }
    ELSE { [ file |-> NULL, content |-> config.prompt_template, cache |-> cache ] }

\* the prompt part of one draw: (prompt_file, prompt_content) and the cache
PromptDraws ==
  IF config.prompt_source # <<>>
    THEN LET first == get_random(config.prompt_source, prep.used_prompts)
             picks == IF first = {NULL} THEN get_random(config.prompt_source, {})
                      ELSE first
         IN UNION { { [ file |-> f, content |-> r.content, cache |-> r.cache ] :
                        r \in _read_file(f) } : f \in picks }
    ELSE { [ file |-> NULL, content |-> config.prompt_template, cache |-> cache ] }

\* faulty variant: the ledger is checked whatever the setting
CheckDuplicates_Always == TRUE

\* line 333: the duplicate check is made
CheckDuplicates == ~config.allow_duplicate_combinations

\* faulty variant: the attempt loop has no bound
LastAttempt_Never == FALSE

\* line 301: range(max_attempts) is used up after this attempt
LastAttempt == prep.attempt + 1 >= max_attempts

\* one iteration of the attempt loop of _select_combination
SelectAttempt ==
  /\ pc = "select"
  /\ \E face \in get_random(config.face_source, {}),
        outfit \in get_random(config.outfit_source, {}),
        background \in get_random(config.background_source, {}),
        pr \in PromptDraws :
       LET combo_hash == _generate_combination_hash(face, outfit, background, pr.file)
           drawn == [ face |-> face, outfit |-> outfit, background |-> background,
                      prompt_file |-> pr.file, prompt_content |-> pr.content,
                      fallback |-> FALSE ]
           exhausted == [ NoSel EXCEPT !.prompt_content = config.prompt_template,
                                       !.fallback = TRUE ]
           noted == [ hist EXCEPT !.unread = @ \/ (pr.file # NULL /\ pr.content = NULL) ]
       IN /\ cache' = pr.cache
          /\ IF ~CheckDuplicates
               THEN /\ used_combinations' = used_combinations
                    /\ prep' = [ prep EXCEPT !.sel = drawn ]
                    /\ pc' = "insert"
                    /\ hist' = noted
               ELSE /\ hist' = [ noted EXCEPT !.consulted = TRUE ]
                    /\ IF is_combination_used(job_id, combo_hash)
                         THEN /\ used_combinations' = used_combinations
                              /\ IF ~LastAttempt
                                   THEN /\ prep' = [ prep EXCEPT !.attempt = @ + 1 ]
                                        /\ pc' = "select"
                                   ELSE /\ prep' = [ prep EXCEPT !.sel = exhausted ]
                                        /\ pc' = "insert"
                         ELSE /\ used_combinations' =
                                   mark_combination_used(job_id, combo_hash,
                                                         face, outfit, background)
                              /\ prep' = [ prep EXCEPT !.sel = drawn ]
                              /\ pc' = "insert"
  /\ UNCHANGED << probe, config, service, jobs, tasks, files, stop_flag, pause_flag,
                  current_job_id, progress_callback, job_id, run, result >>

\* faulty variant: the progress of the warning counts the iteration as done
warning_progress_Done(i, total_count) == << (i + 1) * 100, total_count >>

\* line 418: (i / config.total_count) * 100, as numerator and denominator
warning_progress(i, total_count) == << i * 100, total_count >>

\* faulty variant: the prompt file is not remembered
used_prompts_add_Nothing(used_prompts, prompt_file) == used_prompts

\* lines 409-410: if prompt_file: used_prompts.add(prompt_file)
used_prompts_add(used_prompts, prompt_file) ==
  IF prompt_file # NULL THEN used_prompts \cup { prompt_file } ELSE used_prompts

\* the rest of one iteration of prepare_tasks, after _select_combination returned
PrepInsert ==
  /\ pc = "insert"
  /\ LET s == prep.sel
         used_prompts == used_prompts_add(prep.used_prompts, s.prompt_file)
         prompt == _build_prompt(s.prompt_content, s.face, s.outfit, s.background)
         next == IF prep.i + 1 < config.total_count THEN "select" ELSE "set_callback"
         advanced == [ prep EXCEPT !.i = @ + 1, !.attempt = 0, !.sel = NoSel,
                                   !.used_prompts = used_prompts ]
     IN IF prompt = <<>>
          THEN \E raises \in ListenerRaises :
                 /\ tasks' = tasks
                 /\ hist' = [ hist EXCEPT !.warnings = Append(@,
                                [ i |-> prep.i,
                                  progress |-> warning_progress(prep.i, config.total_count) ]) ]
                 /\ IF raises
                      THEN /\ prep' = [ prep EXCEPT !.used_prompts = used_prompts ]
                           /\ pc' = "aborted"
                      ELSE /\ prep' = advanced
                           /\ pc' = next
          ELSE /\ tasks' = create_generation_task(tasks, job_id, s.face, s.outfit,
                                                  s.background, prompt)
               /\ hist' = [ hist EXCEPT !.built = Append(@,
                              [ combo |-> << s.face, s.outfit, s.background, s.prompt_file >>,
                                fallback |-> s.fallback ]) ]
               /\ prep' = [ advanced EXCEPT !.created_count = @ + 1 ]
               /\ pc' = next
  /\ UNCHANGED << probe, config, service, jobs, used_combinations, files, cache, stop_flag,
                  pause_flag, current_job_id, progress_callback, job_id, run, result >>

\* processor.set_progress_callback(on_progress), then run_batch is entered
SetCallback ==
  /\ pc = "set_callback"
  /\ progress_callback' = TRUE
  /\ pc' = "enter"
  /\ UNCHANGED << probe, config, service, jobs, tasks, used_combinations, files, cache, stop_flag,
                  pause_flag, current_job_id, job_id, prep, run, result, hist >>

----------------------------------------------------------------------------
(* run_batch.  A store call may raise (sqlite3.Error), a registered         *)
(* listener may raise, the remote client may raise; inside the try block    *)
(* any of them leads to the handler.                                        *)

RemoteId(task_id) == << "kie", task_id >>
Url(task_id) == << "https", task_id >>

\* the worker is inside run_batch (between its entry and its return or raise)
InRun == pc \in { "fetch", "check_stop", "check_pause", "sleep", "dispatch",
                  "create_task", "poll", "record", "increment", "after",
                  "delay", "final", "handler" }

\* lines 437-439, before the try block
\* faulty variant: the stop flag is not cleared on entry
RunEnter_KeepsStop ==
  /\ pc = "enter"
  /\ current_job_id' = job_id
  /\ stop_flag' = stop_flag
  /\ hist' = [ hist EXCEPT !.runs = @ + 1, !.late = 0, !.handled = "none",
                 !.delays = 0,
                 !.base = jobs[job_id].completed_count + jobs[job_id].failed_count ]
  /\ run' = RunInit
  /\ result' = NoResult
  /\ \E ok \in BOOLEAN :
       IF ok THEN /\ jobs' = update_batch_job_status(jobs, job_id, "running")
                  /\ pc' = "fetch"
             ELSE /\ jobs' = jobs
                  /\ pc' = "raised"
  /\ probe' = IF probe.fn = "run_batch"
                THEN [ probe EXCEPT !.stop = stop_flag, !.pause = pause_flag ]
                ELSE probe
  /\ UNCHANGED << config, service, tasks, used_combinations, files, cache, pause_flag,
                  progress_callback, job_id, prep >>

\* lines 435-439
RunEnter ==
  /\ pc = "enter"
  /\ current_job_id' = job_id
  /\ stop_flag' = FALSE
  /\ hist' = [ hist EXCEPT !.runs = @ + 1, !.late = 0, !.handled = "none",
                 !.delays = 0,
                 !.base = jobs[job_id].completed_count + jobs[job_id].failed_count ]
  /\ run' = RunInit
  /\ result' = NoResult
  /\ \E ok \in BOOLEAN :
       IF ok THEN /\ jobs' = update_batch_job_status(jobs, job_id, "running")
                  /\ pc' = "fetch"
             ELSE /\ jobs' = jobs
                  /\ pc' = "raised"
  /\ probe' = IF probe.fn = "run_batch"
                THEN [ probe EXCEPT !.stop = stop_flag, !.pause = pause_flag ]
                ELSE probe
  /\ UNCHANGED << config, service, tasks, used_combinations, files, cache, pause_flag,
                  progress_callback, job_id, prep >>

\* lines 450-453
RunFetch ==
  /\ pc = "fetch"
  /\ \E ok \in BOOLEAN :
       IF ok
         THEN LET pending == get_pending_tasks(tasks, job_id)
              IN /\ run' = [ run EXCEPT !.tasks = pending, !.i = 1,
                                        !.results.total = Len(pending) ]
                 /\ pc' = IF pending = <<>> THEN "final" ELSE "check_stop"
         ELSE /\ run' = run
              /\ pc' = "handler"
  /\ UNCHANGED << probe, config, service, jobs, tasks, used_combinations, files, cache, stop_flag,
                  pause_flag, current_job_id, progress_callback, job_id, prep,
                  result, hist >>

\* faulty variant: the stop flag is not looked at
CheckStop_Skipped ==
  /\ pc = "check_stop"
  /\ pc' = "check_pause"
  /\ UNCHANGED << probe, config, service, jobs, tasks, used_combinations, files, cache, stop_flag,
                  pause_flag, current_job_id, progress_callback, job_id, prep,
                  run, result, hist >>

\* faulty variant: the loop is left on stop without the summary saying so
CheckStop_Unmarked ==
  /\ pc = "check_stop"
  /\ pc' = IF stop_flag THEN "final" ELSE "check_pause"
  /\ UNCHANGED << probe, config, service, jobs, tasks, used_combinations, files, cache, stop_flag,
                  pause_flag, current_job_id, progress_callback, job_id, prep,
                  run, result, hist >>

\* lines 455-457
CheckStop ==
  /\ pc = "check_stop"
  /\ IF stop_flag
       THEN /\ run' = [ run EXCEPT !.results.stopped = TRUE ]
            /\ pc' = "final"
       ELSE /\ run' = run
            /\ pc' = "check_pause"
  /\ UNCHANGED << probe, config, service, jobs, tasks, used_combinations, files, cache, stop_flag,
                  pause_flag, current_job_id, progress_callback, job_id, prep,
                  result, hist >>

\* faulty variant: the pause flag is not looked at
CheckPause_Skipped ==
  /\ pc = "check_pause"
  /\ pc' = "dispatch"
  /\ UNCHANGED << probe, config, service, jobs, tasks, used_combinations, files, cache, stop_flag,
                  pause_flag, current_job_id, progress_callback, job_id, prep,
                  run, result, hist >>

\* line 460, then line 466 when the flag is clear
CheckPause ==
  /\ pc = "check_pause"
  /\ pc' = IF pause_flag THEN "sleep" ELSE "dispatch"
  /\ UNCHANGED << probe, config, service, jobs, tasks, used_combinations, files, cache, stop_flag,
                  pause_flag, current_job_id, progress_callback, job_id, prep,
                  run, result, hist >>

\* faulty variant: the wait does not look at the stop flag
Sleep_NoStopCheck ==
  /\ pc = "sleep"
  /\ pc' = "check_pause"
  /\ UNCHANGED << probe, config, service, jobs, tasks, used_combinations, files, cache, stop_flag,
                  pause_flag, current_job_id, progress_callback, job_id, prep,
                  run, result, hist >>

\* lines 461-467
Sleep ==
  /\ pc = "sleep"
  /\ IF stop_flag
       THEN /\ run' = [ run EXCEPT !.results.stopped = TRUE ]
            /\ pc' = "final"
       ELSE /\ run' = run
            /\ pc' = "check_pause"
  /\ UNCHANGED << probe, config, service, jobs, tasks, used_combinations, files, cache, stop_flag,
                  pause_flag, current_job_id, progress_callback, job_id, prep,
                  result, hist >>

\* lines 469-480
Dispatch ==
  /\ pc = "dispatch"
  /\ \E raises \in ListenerRaises, ok \in BOOLEAN :
       IF raises \/ ~ok
         THEN /\ tasks' = tasks
              /\ hist' = hist
              /\ pc' = "handler"
         ELSE /\ tasks' = update_task_status(tasks, run.tasks[run.i], "processing",
                                             NULL, NULL, NULL, NULL)
              /\ hist' = [ hist EXCEPT !.late = IF stop_flag THEN @ + 1 ELSE @ ]
              /\ pc' = "create_task"
  /\ UNCHANGED << probe, config, service, jobs, used_combinations, files, cache, stop_flag,
                  pause_flag, current_job_id, progress_callback, job_id, prep,
                  run, result >>

\* generate_and_wait, lines 613-621 of api_client.py: create_task
CreateTask ==
  /\ pc = "create_task"
  /\ \E outcome \in { "accepted", "refused", "raised" } :
       CASE outcome = "accepted" ->
              /\ result' = [ NoResult EXCEPT !.success = TRUE,
                                             !.task_id = RemoteId(run.tasks[run.i]),
                                             !.status = "pending" ]
              /\ pc' = "poll"
         [] outcome = "refused" ->
              /\ \E error \in service.refusals :
                    result' = [ NoResult EXCEPT !.error = error ]
              /\ pc' = "record"
         [] outcome = "raised" ->
              /\ result' = result
              /\ pc' = "handler"
  /\ UNCHANGED << probe, config, service, jobs, tasks, used_combinations, files, cache, stop_flag,
                  pause_flag, current_job_id, progress_callback, job_id, prep,
                  run, hist >>

\* what the progress callback of wait_for_completion is told (line 569 of
\* api_client.py), recorded where the probe follows the outcomes of the tasks
Heard(status) == IF probe.fn = "outcome" THEN status ELSE "none"

\* faulty variant: the answer of query_task is returned as it is
wait_failed_AsQueried(error) ==
  [ result EXCEPT !.status = "failed", !.error = error, !.polled = TRUE,
                  !.notified = Heard("failed") ]

\* lines 572-581 of api_client.py: the result built for a task observed 'failed'
wait_failed(error) ==
  [ result EXCEPT !.success = FALSE, !.status = "failed",
                  !.error = IF error # NULL THEN error ELSE ErrTaskFailed,
                  !.polled = TRUE, !.notified = Heard("failed") ]

\* the states query_task reports for a task that is not finished
WaitingStates == { "processing", "unknown" }

\* one iteration of wait_for_completion, lines 556-585 of api_client.py
Poll ==
  /\ pc = "poll"
  /\ \E outcome \in { "timeout", "completed", "failed", "waiting" },
        raises \in ListenerRaises :
       CASE outcome = "timeout" ->
              /\ service.timeouts /\ result.polled
              /\ result' = [ NoResult EXCEPT !.task_id = result.task_id,
                                             !.error = ErrTimeout, !.polled = TRUE,
                                             !.notified = result.notified ]
              /\ pc' = "record"
         [] outcome = "completed" ->
              IF raises
                THEN result' = result /\ pc' = "handler"
                ELSE /\ \E image_url \in { IF service.with_url
                                                THEN Url(run.tasks[run.i]) ELSE NULL } :
                          result' = [ result EXCEPT !.status = "completed",
                                        !.image_url = image_url, !.polled = TRUE,
                                        !.notified = Heard("completed") ]
                     /\ pc' = "record"
         [] outcome = "failed" ->
              IF raises
                THEN result' = result /\ pc' = "handler"
                ELSE /\ \E error \in service.failures : result' = wait_failed(error)
                     /\ pc' = "record"
         [] outcome = "waiting" ->
              IF raises
                THEN result' = result /\ pc' = "handler"
                ELSE /\ \E state \in WaitingStates :
                          result' = [ result EXCEPT !.polled = TRUE,
                                                    !.notified = Heard(state) ]
                     /\ pc' = "poll"
  /\ UNCHANGED << probe, config, service, jobs, tasks, used_combinations, files, cache, stop_flag,
                  pause_flag, current_job_id, progress_callback, job_id, prep,
                  run, hist >>

\* the branch of line 512
Succeeded == result.success /\ result.status = "completed"

\* faulty variant: no default for a missing error text
error_msg_NoDefault == result.error

\* line 535
error_msg == IF result.error # NULL THEN result.error ELSE ErrUnknown

\* faulty variant: the outcome is stored but the status written is 'processing'
RecordResult_KeepsProcessing(db_tasks, task_id) ==
  update_task_status(db_tasks, task_id, "processing", result.task_id,
                     IF Succeeded THEN result.image_url ELSE NULL, NULL,
                     IF Succeeded THEN NULL ELSE error_msg)

\* faulty variant: the error message is passed on both branches
RecordResult_ErrorAlways(db_tasks, task_id) ==
  update_task_status(db_tasks, task_id, IF Succeeded THEN "completed" ELSE "failed",
                     result.task_id, IF Succeeded THEN result.image_url ELSE NULL,
                     NULL, error_msg)

\* the store write of lines 518-523 (success) or 538-543 (failure)
RecordResult(db_tasks, task_id) ==
  IF Succeeded
    THEN update_task_status(db_tasks, task_id, "completed", result.task_id,
                            result.image_url, NULL, NULL)
    ELSE update_task_status(db_tasks, task_id, "failed", result.task_id, NULL, NULL,
                            error_msg)

\* lines 518-523 and 538-543
Record ==
  /\ pc = "record"
  /\ \E ok \in BOOLEAN :
       IF ~ok
         THEN tasks' = tasks /\ pc' = "handler"
         ELSE /\ tasks' = RecordResult(tasks, run.tasks[run.i])
              /\ pc' = "increment"
  /\ UNCHANGED << probe, config, service, jobs, used_combinations, files, cache, stop_flag,
                  pause_flag, current_job_id, progress_callback, job_id, prep,
                  run, result, hist >>

\* lines 524-525 and 544-545
Increment ==
  /\ pc = "increment"
  /\ \E ok \in BOOLEAN :
       IF ~ok
         THEN /\ jobs' = jobs /\ run' = run /\ pc' = "handler"
              /\ hist' = [ hist EXCEPT !.torn = TRUE ]
         ELSE /\ jobs' = increment_batch_job_count(jobs, job_id, Succeeded)
              /\ run' = IF Succeeded
                          THEN [ run EXCEPT !.results.completed = @ + 1 ]
                          ELSE [ run EXCEPT !.results.failed = @ + 1 ]
              /\ pc' = "after"
              /\ hist' = hist
  /\ UNCHANGED << probe, config, service, tasks, used_combinations, files, cache, stop_flag,
                  pause_flag, current_job_id, progress_callback, job_id, prep,
                  result >>

Timestamps == { "20260101_000000", "20260101_000001" }

\* faulty variant: a source that is no longer there counts as moved
_move_error_image_MissingSource(image_path, error_folder) ==
  IF image_path = NULL \/ error_folder = NULL
    THEN { [ moved |-> FALSE, files |-> files ] }
    ELSE { [ moved |-> TRUE,
             files |-> [ src |-> files.src \ { image_path },
                         err |-> files.err \cup { Name(image_path) } ] ],
           [ moved |-> FALSE, files |-> files ] }

\* faulty variant: the file is stored under its own name whatever the folder holds
_move_error_image_NoRename(image_path, error_folder) ==
  IF image_path = NULL \/ error_folder = NULL \/ image_path \notin files.src
    THEN { [ moved |-> FALSE, files |-> files ] }
    ELSE { [ moved |-> TRUE,
             files |-> [ src |-> files.src \ { image_path },
                         err |-> files.err \cup { Name(image_path) } ] ],
           [ moved |-> FALSE, files |-> files ] }

\* the outcomes of _move_error_image: whether it moved, and the file system after
_move_error_image(image_path, error_folder) ==
  IF image_path = NULL \/ error_folder = NULL
    THEN { [ moved |-> FALSE, files |-> files ] }
  ELSE IF image_path \notin files.src
    THEN { [ moved |-> FALSE, files |-> files ] }
  ELSE LET dests == IF Name(image_path) \in files.err
                      THEN { << Stem(image_path), "_", ts, image_path[3] >> :
                               ts \in Timestamps }
                      ELSE { Name(image_path) }
       IN { [ moved |-> TRUE,
              files |-> [ src |-> files.src \ { image_path },
                          err |-> files.err \cup { d } ] ] : d \in dests }
          \cup { [ moved |-> FALSE, files |-> files ] }

\* faulty variant: the delay is taken after every task
MoreTasks_Always == TRUE

\* line 565: i < len(tasks) - 1
MoreTasks == run.i < Len(run.tasks)

\* lines 527-532 or 547-562, then line 565
After ==
  /\ pc = "after"
  /\ LET outfit == tasks[run.tasks[run.i]].outfit_image_path
         moves == IF ~Succeeded /\ config.error_folder # NULL /\ outfit # NULL
                     /\ _is_content_policy_error(error_msg)
                    THEN _move_error_image(outfit, config.error_folder)
                    ELSE { [ moved |-> FALSE, files |-> files ] }
     IN \E m \in moves, raises \in ListenerRaises :
          /\ files' = m.files
          /\ run' = IF m.moved
                      THEN [ run EXCEPT !.results.moved_images = @ + 1 ]
                      ELSE run
          /\ pc' = IF raises THEN "handler"
                   ELSE IF MoreTasks THEN "delay" ELSE "final"
  /\ UNCHANGED << probe, config, service, jobs, tasks, used_combinations, cache, stop_flag,
                  pause_flag, current_job_id, progress_callback, job_id, prep,
                  result, hist >>

\* line 566, then the next iteration
Delay ==
  /\ pc = "delay"
  /\ run' = [ run EXCEPT !.i = @ + 1 ]
  /\ hist' = [ hist EXCEPT !.delays = @ + 1 ]
  /\ pc' = "check_stop"
  /\ UNCHANGED << probe, config, service, jobs, tasks, used_combinations, files, cache, stop_flag,
                  pause_flag, current_job_id, progress_callback, job_id, prep,
                  result >>

\* faulty variant: the flag is read instead of what the loop observed
final_status_FromFlag == IF stop_flag THEN "stopped" ELSE "completed"

\* line 569
final_status == IF run.results.stopped THEN "stopped" ELSE "completed"

\* lines 569-576, then finally and return
Final ==
  /\ pc = "final"
  /\ \E ok \in BOOLEAN, raises \in ListenerRaises :
       IF ~ok
         THEN jobs' = jobs /\ pc' = "handler" /\ current_job_id' = current_job_id
         ELSE /\ jobs' = update_batch_job_status(jobs, job_id, final_status)
              /\ pc' = IF raises THEN "handler" ELSE "returned"
              /\ current_job_id' = IF raises THEN current_job_id ELSE 0
  /\ UNCHANGED << probe, config, service, tasks, used_combinations, files, cache, stop_flag,
                  pause_flag, progress_callback, job_id, prep, run, result, hist >>

\* faulty variant: the handler puts the tasks of the run that are not finished
\* back to 'pending'
Handler_Rollback ==
  /\ pc = "handler"
  /\ \E ok \in BOOLEAN :
       /\ jobs' = IF ok THEN update_batch_job_status(jobs, job_id, "error") ELSE jobs
       /\ hist' = [ hist EXCEPT !.handled = IF ok THEN "written" ELSE "unwritten" ]
  /\ tasks' = [ t \in DOMAIN tasks |->
                  IF tasks[t].status = "processing"
                    THEN [ tasks[t] EXCEPT !.status = "pending" ] ELSE tasks[t] ]
  /\ current_job_id' = 0
  /\ pc' = "raised"
  /\ UNCHANGED << probe, config, service, used_combinations, files, cache, stop_flag,
                  pause_flag, progress_callback, job_id, prep, run, result >>

\* lines 578-584: except, finally, re-raise
Handler ==
  /\ pc = "handler"
  /\ \E ok \in BOOLEAN :
       /\ jobs' = IF ok THEN update_batch_job_status(jobs, job_id, "error") ELSE jobs
       /\ hist' = [ hist EXCEPT !.handled = IF ok THEN "written" ELSE "unwritten" ]
  /\ current_job_id' = 0
  /\ pc' = "raised"
  /\ UNCHANGED << probe, config, service, tasks, used_combinations, files, cache, stop_flag,
                  pause_flag, progress_callback, job_id, prep, run, result >>

\* run_batch called again on an existing job
Rerun ==
  /\ pc \in Idle
  /\ hist.runs < MaxRuns
  /\ \E j \in DOMAIN jobs : job_id' = j
  /\ pc' = "enter"
  /\ UNCHANGED << probe, config, service, jobs, tasks, used_combinations, files, cache, stop_flag,
                  pause_flag, current_job_id, progress_callback, prep, run,
                  result, hist >>

----------------------------------------------------------------------------
(* The control thread: stop, pause, resume                                  *)

Stop ==
  /\ stop_flag' = TRUE
  /\ UNCHANGED << probe, config, service, jobs, tasks, used_combinations, files, cache,
                  pause_flag, current_job_id, progress_callback, pc, job_id,
                  prep, run, result, hist >>

Pause ==
  /\ pause_flag' = TRUE
  /\ UNCHANGED << probe, config, service, jobs, tasks, used_combinations, files, cache,
                  stop_flag, current_job_id, progress_callback, pc, job_id,
                  prep, run, result, hist >>

Resume ==
  /\ pause_flag' = FALSE
  /\ UNCHANGED << probe, config, service, jobs, tasks, used_combinations, files, cache,
                  stop_flag, current_job_id, progress_callback, pc, job_id,
                  prep, run, result, hist >>

----------------------------------------------------------------------------
(* The recheck operation (app.py check_all_tasks)                           *)

\* what query_task can answer for a task under recheck
RecheckAnswers ==
  { [ status |-> "completed", image_url |-> << "https" >>, error |-> NULL ],
    [ status |-> "completed", image_url |-> NULL, error |-> NULL ],
    [ status |-> "failed", image_url |-> NULL, error |-> ErrTaskFailed ],
    [ status |-> "processing", image_url |-> NULL, error |-> NULL ] }

\* lines 577-608: the loop over the selected tasks, on the tables db
RECURSIVE RecheckLoop(_, _, _, _)
RecheckLoop(db, ids, answer, j) ==
  IF ids = <<>> THEN db
  ELSE LET t == Head(ids)
           a == answer[t]
           next ==
             IF db.tasks[t].api_request_id = NULL THEN db
             ELSE IF a.status = "completed"
               THEN [ tasks |-> update_task_status(db.tasks, t, "completed", NULL,
                                                   a.image_url, NULL, NULL),
                      jobs |-> increment_batch_job_count(db.jobs, j, TRUE) ]
             ELSE IF a.status = "failed"
               THEN [ tasks |-> update_task_status(db.tasks, t, "failed", NULL,
                                                   NULL, NULL, a.error),
                      jobs |-> increment_batch_job_count(db.jobs, j, FALSE) ]
             ELSE db
       IN RecheckLoop(next, Tail(ids), answer, j)

\* lines 553-615
check_all_tasks(j, answer) ==
  LET selected == get_processing_tasks(tasks, j)
      after == RecheckLoop([ tasks |-> tasks, jobs |-> jobs ], selected, answer, j)
  IN IF selected = <<>> THEN [ tasks |-> tasks, jobs |-> jobs ]
     ELSE IF get_incomplete_tasks(after.tasks, j) = <<>>
       THEN [ after EXCEPT !.jobs = update_batch_job_status(@, j, "completed") ]
       ELSE after

CheckAllTasks ==
  /\ \E j \in DOMAIN jobs :
       \E answer \in [ SourceFiles(get_processing_tasks(tasks, j)) -> RecheckAnswers ] :
          /\ tasks' = check_all_tasks(j, answer).tasks
          /\ jobs' = check_all_tasks(j, answer).jobs
  /\ UNCHANGED << probe, config, service, used_combinations, files, cache, stop_flag, pause_flag,
                  current_job_id, progress_callback, pc, job_id, prep, run,
                  result, hist >>

----------------------------------------------------------------------------
(* The ledger on its own: mark_combination_used called for any job and hash, *)
(* any number of times                                                      *)

LedgerJobs == { 1, 2 }
LedgerOutfits == { NULL, O1, O2 }

LedgerMark ==
  /\ Len(hist.marked) < MaxMarks
  /\ \E j \in LedgerJobs, outfit \in LedgerOutfits :
       LET combo_hash == _generate_combination_hash(NULL, outfit, NULL, NULL)
       IN /\ used_combinations' =
                mark_combination_used(j, combo_hash, NULL, outfit, NULL)
          /\ hist' = [ hist EXCEPT !.marked = Append(@, << j, combo_hash >>) ]
  /\ UNCHANGED << probe, config, service, jobs, tasks, files, cache, stop_flag, pause_flag,
                  current_job_id, progress_callback, pc, job_id, prep, run, result >>

SpecLedger == Init /\ [][LedgerMark]_vars

----------------------------------------------------------------------------
(* Preparation on its own: start_batch_generation up to the return of       *)
(* prepare_tasks, with prompt folders; run_batch is left out (it does not   *)
(* touch the ledger or the prompt pool)                                     *)

PrepConfigs ==
  { BatchConfig(n, tmpl, <<>>, outfit, <<>>, prompts, dup, NULL) :
      n \in 1..MaxCount, tmpl \in {NULL, TextTemplate},
      outfit \in {<<>>, <<O1>>, <<O1, O2>>},
      prompts \in {<<>>, <<P1>>, <<P1, P2>>},
      dup \in BOOLEAN }

InitPrep ==
  /\ config \in PrepConfigs
  /\ service \in { sv \in Services : sv.ready /\ sv.with_url }
  /\ probe = NoProbe
  /\ Constructed

\* the form is submitted again: the next start_batch_generation
PrepareAgain ==
  /\ pc = "set_callback"
  /\ Len(jobs) < MaxJobs
  /\ pc' = "ready"
  /\ UNCHANGED << probe, config, service, jobs, tasks, used_combinations, files, cache,
                  stop_flag, pause_flag, current_job_id, progress_callback, job_id,
                  prep, run, result, hist >>

NextPrep == StartBatch \/ CreateJob \/ SelectAttempt \/ PrepInsert

SpecPrep == InitPrep /\ [][NextPrep]_vars

\* one job after another prepared from the same form, image pools only
JobsConfigs ==
  { BatchConfig(n, TextTemplate, <<>>, outfit, <<>>, <<>>, dup, NULL) :
      n \in 1..MaxCount, outfit \in {<<>>, <<O1>>, <<O1, O2>>}, dup \in BOOLEAN }

InitJobs ==
  /\ config \in JobsConfigs
  /\ service \in { sv \in Services : sv.ready /\ sv.with_url }
  /\ probe = NoProbe
  /\ Constructed

NextJobs == StartBatch \/ CreateJob \/ SelectAttempt \/ PrepInsert \/ PrepareAgain

SpecJobs == InitJobs /\ [][NextJobs]_vars

----------------------------------------------------------------------------
(* Preparation of the two worked configurations: three faces, two outfits  *)
(* and one background with a direct prompt for six images; a prompt folder  *)
(* of two files and no image pool for five images                           *)

PairsScenario ==
  BatchConfig(6, TextTemplate, << F1, F2, F3 >>, << O1, O2 >>, << B1 >>, <<>>, FALSE, NULL)

PromptScenarios ==
  { BatchConfig(5, tmpl, <<>>, <<>>, <<>>, << P1, P2 >>, dup, NULL) :
      tmpl \in {NULL, TextTemplate}, dup \in BOOLEAN }

InitPairs ==
  /\ config = PairsScenario
  /\ service \in { sv \in Services : sv.ready /\ sv.with_url }
  /\ probe = NoProbe
  /\ Constructed

InitPrompts ==
  /\ config \in PromptScenarios
  /\ service \in { sv \in Services : sv.ready /\ sv.with_url }
  /\ probe = NoProbe
  /\ Constructed

NextScenario == StartBatch \/ CreateJob \/ SelectAttempt \/ PrepInsert

SpecPairs == InitPairs /\ [][NextScenario]_vars

SpecPrompts == InitPrompts /\ [][NextScenario]_vars

----------------------------------------------------------------------------
(* Two callers of _select_combination for the same job, interleaved at the  *)
(* store operations: is_combination_used and mark_combination_used are two  *)
(* statements, each on a connection of its own                              *)

Callers == { 1, 2 }

NoCall == [ at |-> "draw", attempt |-> 0, outfit |-> NULL, seen |-> 0, fallback |-> FALSE ]

InitRace ==
  /\ config \in { BatchConfig(2, TextTemplate, <<>>, << O1, O2 >>, <<>>, <<>>, dup, NULL) :
                    dup \in BOOLEAN }
  /\ service \in { sv \in Services : sv.ready /\ sv.with_url }
  /\ probe = [ fn |-> "_select_combination", batch_job_id |-> 1,
               callers |-> [ c \in Callers |-> NoCall ] ]
  /\ Constructed

\* lines 301-338: one attempt up to the duplicate check
RaceCheck(c) ==
  /\ probe.callers[c].at = "draw"
  /\ \E outfit \in get_random(config.outfit_source, {}) :
       LET combo_hash == _generate_combination_hash(NULL, outfit, NULL, NULL)
           me == probe.callers[c]
           next ==
             IF ~CheckDuplicates
               THEN [ me EXCEPT !.at = "returned", !.outfit = outfit ]
             ELSE IF ~is_combination_used(probe.batch_job_id, combo_hash)
               THEN [ me EXCEPT !.at = "mark", !.outfit = outfit,
                                !.seen = Len(used_combinations) ]
             ELSE IF me.attempt + 1 >= max_attempts
               THEN [ me EXCEPT !.at = "returned", !.fallback = TRUE ]
             ELSE [ me EXCEPT !.attempt = @ + 1 ]
       IN probe' = [ probe EXCEPT !.callers[c] = next ]
  /\ UNCHANGED << config, service, jobs, tasks, used_combinations, files, cache,
                  stop_flag, pause_flag, current_job_id, progress_callback, pc, job_id,
                  prep, run, result, hist >>

\* lines 341-346: the combination is recorded and returned
RaceMark(c) ==
  /\ probe.callers[c].at = "mark"
  /\ LET outfit == probe.callers[c].outfit
         combo_hash == _generate_combination_hash(NULL, outfit, NULL, NULL)
     IN used_combinations' =
          mark_combination_used(probe.batch_job_id, combo_hash, NULL, outfit, NULL)
  /\ probe' = [ probe EXCEPT !.callers[c].at = "returned" ]
  /\ UNCHANGED << config, service, jobs, tasks, files, cache, stop_flag, pause_flag,
                  current_job_id, progress_callback, pc, job_id, prep, run, result,
                  hist >>

RaceStep == \E c \in Callers : RaceCheck(c)

RaceRecord == \E c \in Callers : RaceMark(c)

NextRace == RaceStep \/ RaceRecord

SpecRace == InitRace /\ [][NextRace]_vars

----------------------------------------------------------------------------
(* The pure functions on their own: one call of get_random of a pool, or of *)
(* _is_content_policy_error, on arguments drawn from the sets below         *)

\* lists of distinct files of a folder
Pools(fs) ==
  {<<>>} \cup { << a >> : a \in fs }
         \cup { p \in fs \X fs : p[1] # p[2] }
         \cup { p \in fs \X fs \X fs : p[1] # p[2] /\ p[1] # p[3] /\ p[2] # p[3] }

DrawCalls ==
  { [ fn |-> "get_random", kind |-> "image", files |-> pool, exclude |-> ex,
      done |-> FALSE, out |-> NULL ] : pool \in Pools({F1, F2, F3}), ex \in SUBSET {F1, F2, F3, O1} }
  \cup
  { [ fn |-> "get_random", kind |-> "prompt", files |-> pool, exclude |-> ex,
      done |-> FALSE, out |-> NULL ] : pool \in Pools({P1, P2}), ex \in SUBSET {P1, P2} }

Shout(s) == [ k \in DOMAIN s |-> Upper(s[k]) ]

Messages ==
  { NULL, MsgNSFW, MsgHTTP500, ErrHTTP503, ErrPolicy, ErrTimeout, ErrUnknown, ErrTaskFailed }
  \cup { content_error_keywords[n] : n \in DOMAIN content_error_keywords }
  \cup { Shout(content_error_keywords[n]) : n \in DOMAIN content_error_keywords }
  \cup { ErrHTTP503 \o <<":"," ">> \o Shout(content_error_keywords[n]) \o <<".">> :
            n \in DOMAIN content_error_keywords }
  \cup { Tail(content_error_keywords[n]) : n \in DOMAIN content_error_keywords }

ClassifyCalls ==
  { [ fn |-> "_is_content_policy_error", error_message |-> msg, done |-> FALSE,
      out |-> FALSE ] :
      msg \in Messages }

InitPure ==
  /\ config = BatchConfig(1, TextTemplate, <<>>, <<>>, <<>>, <<>>, FALSE, NULL)
  /\ service \in { sv \in Services : sv.ready /\ sv.with_url }
  /\ probe \in DrawCalls \cup ClassifyCalls
  /\ Constructed

\* ImageSource.get_random (48-60) and PromptSource.get_random (111-130)
Draw ==
  /\ probe.fn = "get_random"
  /\ ~probe.done
  /\ \E selected \in get_random(probe.files, probe.exclude) :
       IF selected = NULL \/ probe.kind = "image"
         THEN /\ probe' = [ probe EXCEPT !.done = TRUE, !.out = selected ]
              /\ cache' = cache
         ELSE \E r \in _read_file(selected) :
                /\ probe' = [ probe EXCEPT !.done = TRUE,
                                          !.out = << selected, r.content >> ]
                /\ cache' = r.cache
  /\ UNCHANGED << config, service, jobs, tasks, used_combinations, files, stop_flag,
                  pause_flag, current_job_id, progress_callback, pc, job_id, prep,
                  run, result, hist >>

Classify ==
  /\ probe.fn = "_is_content_policy_error"
  /\ ~probe.done
  /\ probe' = [ probe EXCEPT !.done = TRUE,
                          !.out = _is_content_policy_error(probe.error_message) ]
  /\ UNCHANGED << config, service, jobs, tasks, used_combinations, files, cache,
                  stop_flag, pause_flag, current_job_id, progress_callback, pc, job_id,
                  prep, run, result, hist >>

NextPure == Draw \/ Classify

SpecPure == InitPure /\ [][NextPure]_vars

----------------------------------------------------------------------------
(* One PromptSource and its callers: any sequence of get_random and         *)
(* get_content calls on the same object                                     *)

MaxCalls == 4

PromptFiles == << P1, P2 >>

\* the keys of _contents_cache
CachedPaths == { e[1] : e \in cache }

InitCache ==
  /\ config = BatchConfig(1, TextTemplate, <<>>, <<>>, <<>>, PromptFiles, FALSE, NULL)
  /\ service \in { sv \in Services : sv.ready /\ sv.with_url }
  /\ probe = [ fn |-> "_read_file", calls |-> 0,
               reads |-> [ f \in SourceFiles(PromptFiles) |-> 0 ], out |-> NULL ]
  /\ Constructed

\* one call of _read_file: the disk is touched (path.read_text, line 104) exactly
\* when the path is not a key of the cache
ReadThrough(file_path) ==
  \E r \in _read_file(file_path) :
    /\ cache' = r.cache
    /\ probe' = [ probe EXCEPT !.calls = @ + 1,
                              !.reads[file_path] =
                                 IF file_path \in CachedPaths THEN @ ELSE @ + 1,
                              !.out = << file_path, r.content >> ]

\* PromptSource.get_random (111-130)
PromptSource_get_random ==
  /\ probe.fn = "_read_file"
  /\ probe.calls < MaxCalls
  /\ \E exclude \in SUBSET SourceFiles(config.prompt_source) :
     \E selected \in get_random(config.prompt_source, exclude) :
       IF selected = NULL
         THEN /\ probe' = [ probe EXCEPT !.calls = @ + 1, !.out = NULL ]
              /\ cache' = cache
         ELSE ReadThrough(selected)
  /\ UNCHANGED << config, service, jobs, tasks, used_combinations, files, stop_flag,
                  pause_flag, current_job_id, progress_callback, pc, job_id, prep,
                  run, result, hist >>

\* PromptSource.get_content (136-138)
get_content ==
  /\ probe.fn = "_read_file"
  /\ probe.calls < MaxCalls
  /\ \E file_path \in SourceFiles(config.prompt_source) : ReadThrough(file_path)
  /\ UNCHANGED << config, service, jobs, tasks, used_combinations, files, stop_flag,
                  pause_flag, current_job_id, progress_callback, pc, job_id, prep,
                  run, result, hist >>

NextCache == PromptSource_get_random \/ get_content

SpecCache == InitCache /\ [][NextCache]_vars

----------------------------------------------------------------------------
(* One job of MaxCount tasks under the control thread; the probe records    *)
(* the flags as run_batch found them on entry                               *)

InitControl ==
  /\ config = BatchConfig(MaxCount, TextTemplate, <<>>, <<>>, <<>>, <<>>, TRUE, NULL)
  /\ service \in { sv \in Services : sv.ready }
  /\ probe = [ fn |-> "run_batch", stop |-> FALSE, pause |-> FALSE ]
  /\ Constructed

----------------------------------------------------------------------------

Next ==
  \/ StartBatch \/ CreateJob \/ SelectAttempt \/ PrepInsert \/ SetCallback
  \/ RunEnter \/ RunFetch \/ CheckStop \/ CheckPause \/ Sleep \/ Dispatch
  \/ CreateTask \/ Poll \/ Record \/ Increment \/ After \/ Delay \/ Final
  \/ Handler \/ Rerun
  \/ Stop \/ Pause \/ Resume
  \/ CheckAllTasks

Spec == Init /\ [][Next]_vars

SpecControl == InitControl /\ [][Next]_vars

\* one job of MaxCount tasks that share one outfit image, with an error folder;
\* the probe follows the outcomes of the tasks
InitOutcome ==
  /\ config = BatchConfig(MaxCount, TextTemplate, <<>>, << O1 >>, <<>>, <<>>, TRUE,
                          <<"errors">>)
  /\ service \in { sv \in Services : sv.ready }
  /\ probe = [ fn |-> "outcome" ]
  /\ Constructed

SpecOutcome == InitOutcome /\ [][Next]_vars

\* the steps of the thread that prepares and runs the batch
Worker ==
  \/ StartBatch \/ CreateJob \/ SelectAttempt \/ PrepInsert \/ SetCallback
  \/ RunEnter \/ RunFetch \/ CheckStop \/ CheckPause \/ Sleep \/ Dispatch
  \/ CreateTask \/ Poll \/ Record \/ Increment \/ After \/ Delay \/ Final
  \/ Handler

\* the polling loop is left: by an answer, by an exception or by the timeout
PollEnds == Poll /\ pc' # "poll"

\* one job of MaxCount tasks; the worker thread is scheduled, every store call, remote call and sleep
\* returns, and wait_for_completion gives up after its timeout (lines 558-565
\* of api_client.py); nothing is assumed of the control thread
InitFair ==
  /\ config = BatchConfig(MaxCount, TextTemplate, <<>>, <<>>, <<>>, <<>>, TRUE, NULL)
  /\ service \in { sv \in Services : sv.ready /\ sv.timeouts }
  /\ probe = NoProbe
  /\ Constructed

\* one run of the job and the control thread
NextFair == Worker \/ Stop \/ Pause \/ Resume

FairControl ==
  InitFair /\ [][NextFair]_vars /\ WF_vars(Worker) /\ WF_vars(PollEnds)

----------------------------------------------------------------------------
(* Properties *)

\* the task records of job j
JobTasks(j) == { t \in DOMAIN tasks : tasks[t].batch_job_id = j }

\* what the counters of job j add up to
Counted(j) == jobs[j].completed_count + jobs[j].failed_count

\* the positions in the list of the current run whose task has been dispatched
RunDispatched == { k \in DOMAIN run.tasks : tasks[run.tasks[k]].status # "pending" }

\* every configured pool holds at least total_count entries
PoolsCoverCount ==
  \A pool \in { config.face_source, config.outfit_source,
                config.background_source, config.prompt_source } :
     pool = <<>> \/ Len(pool) >= config.total_count

\* C1: with duplicate combinations disallowed and every configured pool (none
\* included) at least as large as the requested count, no two tasks of the job
\* were built from the same (face, outfit, background, prompt_file) tuple.
C1_NoDuplicateTuples ==
  (~config.allow_duplicate_combinations /\ PoolsCoverCount) =>
     \A a, b \in DOMAIN hist.built :
        a # b => hist.built[a].combo # hist.built[b].combo

\* C2: with duplicate combinations allowed the ledger is neither read nor
\* written (it stays as it was, empty), every selection returns its first draw
\* (no retry, no exhaustion tuple), and the same tuple may come back.
C2_LedgerUntouched ==
  config.allow_duplicate_combinations =>
     /\ used_combinations = <<>>
     /\ ~hist.consulted
     /\ prep.attempt = 0
     /\ ~prep.sel.fallback
     /\ \A k \in DOMAIN hist.built : ~hist.built[k].fallback

C2_RepeatReturned ==
  /\ config.allow_duplicate_combinations
  /\ Len(hist.built) = 2
  /\ hist.built[1].combo = hist.built[2].combo
  /\ config.outfit_source # <<>>
  /\ used_combinations = <<>>

\* C3 as stated: once stop() has been called during a run, no further task of
\* the run becomes 'processing' (no dispatch finds the flag set).
C3_NoDispatchAfterStop == hist.late = 0

\* C3 amended: the flag is looked at once per iteration (and in the pause wait),
\* so at most one task of a run is dispatched with the flag already set; once
\* the loop has observed the flag it dispatches nothing more; and when the run
\* returns, every task it dispatched is 'completed' or 'failed'.
C3_StopAtNextCheck ==
  /\ hist.late <= 1
  /\ run.results.stopped => pc \in { "final", "handler", "returned", "raised", "enter" }
  /\ pc = "returned" =>
        \A k \in RunDispatched : tasks[run.tasks[k]].status \in { "completed", "failed" }

C3_LateDispatchThenStopped ==
  /\ pc = "returned"
  /\ hist.late = 1
  /\ run.results.stopped
  /\ RunDispatched = { 1 }

\* C4 as stated: when run_batch has returned, completed_count + failed_count
\* of the job equals the number of its tasks that were dispatched.
C4_CountersEqualDispatched ==
  pc = "returned" =>
     Counted(job_id) =
        Cardinality({ t \in JobTasks(job_id) : tasks[t].status # "pending" })

\* C4 amended: when run_batch has returned, the counters have grown during this
\* run by exactly the number of tasks this run dispatched, each of them is
\* 'completed' or 'failed', and the undispatched ones added nothing.
C4_RunCountsItsDispatches ==
  pc = "returned" =>
     /\ Counted(job_id) = hist.base + Cardinality(RunDispatched)
     /\ run.results.completed + run.results.failed = Cardinality(RunDispatched)

C4_StoppedWithTaskLeft ==
  /\ pc = "returned"
  /\ run.results.stopped
  /\ Len(run.tasks) = 2
  /\ Cardinality(RunDispatched) = 1
  /\ jobs[job_id].failed_count = 1

\* C5: in every reachable state, completed_count + failed_count of a job is at
\* most the number of task records of that job.
C5_CountersBounded ==
  \A j \in DOMAIN jobs : Counted(j) <= Cardinality(JobTasks(j))

C5_AllCountedOverTwoRuns ==
  /\ jobs # <<>>
  /\ hist.runs = 2
  /\ pc = "returned"
  /\ Len(tasks) = 2
  /\ Counted(1) = 2

\* C6: result_url is non-null only on a 'completed' task, error_message only on
\* a 'failed' task.
C6_ResultFieldsMatchStatus ==
  \A t \in DOMAIN tasks :
     /\ tasks[t].result_url # NULL => tasks[t].status = "completed"
     /\ tasks[t].error_message # NULL => tasks[t].status = "failed"

C6_BothOutcomesStored ==
  \E a, b \in DOMAIN tasks :
     /\ tasks[a].status = "completed" /\ tasks[a].result_url # NULL
     /\ tasks[b].status = "failed" /\ tasks[b].error_message # NULL

\* C7: while a task the remote service has accepted is being polled, its
\* record already carries the request id (and nothing changes an id once set).
C7_RequestIdStoredOnAccept ==
  pc = "poll" => tasks[run.tasks[run.i]].api_request_id = result.task_id

\* C8: a task record is created 'pending', and its status changes only
\* pending -> processing, processing -> completed, processing -> failed.
C8_StatusSteps ==
  [][ /\ \A t \in DOMAIN tasks :
           /\ t \in DOMAIN tasks'
           /\ tasks'[t].status # tasks[t].status =>
                << tasks[t].status, tasks'[t].status >> \in
                   { << "pending", "processing" >>, << "processing", "completed" >>,
                     << "processing", "failed" >> }
      /\ \A t \in DOMAIN tasks' \ DOMAIN tasks : tasks'[t].status = "pending" ]_vars

C8_FailedStaysWhileNextRuns ==
  /\ hist.runs = 2
  /\ \E a, b \in DOMAIN tasks :
        tasks[a].status = "failed" /\ tasks[b].status = "processing"

\* C9: 'running' is persisted before any task of the run becomes 'processing',
\* and however run_batch ends (return or raise) the persisted status of the job
\* is 'completed', 'stopped' or 'error'.
C9_TerminalStatusOnExit ==
  /\ pc \in { "create_task", "poll", "record" } => jobs[job_id].status = "running"
  /\ pc \in { "returned", "raised" } =>
        jobs[job_id].status \in { "completed", "stopped", "error" }

\* C10: when run_batch has returned, the status of the job is 'stopped' if the
\* loop observed a stop and 'completed' otherwise; a run with no pending task,
\* and a run all of whose tasks were dispatched, end 'completed' whatever the
\* flag.
C10_FinalStatus ==
  pc = "returned" =>
     /\ jobs[job_id].status = IF run.results.stopped THEN "stopped" ELSE "completed"
     /\ Cardinality(RunDispatched) = Len(run.tasks) => jobs[job_id].status = "completed"

C10_StopAfterLastDispatch ==
  /\ pc = "returned"
  /\ stop_flag
  /\ run.tasks # <<>>
  /\ Cardinality(RunDispatched) = Len(run.tasks)
  /\ jobs[job_id].status = "completed"

C12_FailureRecordedBatchGoesOn ==
  /\ \A t \in DOMAIN tasks :
        tasks[t].status = "failed" => tasks[t].error_message # NULL
  /\ (pc = "record" /\ ~Succeeded) => error_msg # NULL
  /\ (pc = "returned" /\ ~run.results.stopped) => RunDispatched = DOMAIN run.tasks

C12_LaterTaskRunsAfterFailure ==
  /\ pc = "returned"
  /\ ~run.results.stopped
  /\ Len(run.tasks) = 2
  /\ tasks[run.tasks[1]].status = "failed"
  /\ tasks[run.tasks[1]].error_message \in { ErrTimeout, ErrUnknown }
  /\ tasks[run.tasks[2]].status = "completed"

\* C13 as stated: during a run, as long as the pause flag is set no task
\* becomes 'processing', no remote call is made (the result in progress does
\* not change) and the task index does not advance, wherever in the loop the
\* pause() arrived.
C13_NothingWhilePauseSet ==
  [][ (InRun /\ pc # "fetch" /\ pause_flag /\ pause_flag') =>
         /\ \A t \in DOMAIN tasks :
               tasks'[t].status = "processing" => tasks[t].status = "processing"
         /\ result' = result
         /\ run'.i = run.i ]_vars

\* C13 amended: the pause flag is looked at once per iteration, after the stop
\* check.  While the runner stands at that check or in the wait with the flag
\* set, no task record changes, no remote call is made and the index stays;
\* it leaves the wait only for the final status update when stop is set, and
\* goes on to dispatch only with the flag clear.
C13_PauseWaitBlocks ==
  [][ /\ (pc \in { "check_pause", "sleep" } /\ pause_flag) =>
            /\ tasks' = tasks
            /\ result' = result
            /\ run'.i = run.i
            /\ pc' \in { "check_pause", "sleep", "final" }
      /\ (pc = "sleep" /\ pc' = "final") => stop_flag
      /\ (pc # "dispatch" /\ pc' = "dispatch") => ~pause_flag ]_vars

C13_BlockedBeforeSecondTask ==
  /\ pc = "sleep"
  /\ pause_flag
  /\ ~stop_flag
  /\ run.i = 2
  /\ tasks[run.tasks[1]].status = "completed"
  /\ tasks[run.tasks[2]].status = "pending"

\* C14: when stop is set while the runner is in the pause wait, its next check
\* leaves the wait with stopped = true although pause is still set, nothing
\* more is dispatched, and the return that follows leaves the job 'stopped'.
C14_StopEndsPauseWait ==
  [][ /\ (pc = "sleep" /\ stop_flag /\ pc' # "sleep") =>
            /\ pc' = "final"
            /\ run'.results.stopped
            /\ tasks' = tasks
      /\ (pc = "final" /\ run.results.stopped /\ pc' # "final") =>
            /\ tasks' = tasks
            /\ pc' \in { "returned", "handler" }
            /\ pc' = "returned" => jobs'[job_id].status = "stopped" ]_vars

C14_StopArrivedInPauseWait ==
  /\ pc = "sleep"
  /\ stop_flag
  /\ pause_flag
  /\ hist.late = 0
  /\ run.i = 2
  /\ tasks[run.tasks[2]].status = "pending"

\* C15: within one run the tasks are dispatched in strictly ascending id
\* order: the list of the run is ascending, the dispatched tasks are a prefix
\* of it, and no task of the job that is still 'pending' has a smaller id
\* than a task the run has dispatched.
C15_AscendingDispatch ==
  /\ \A a, b \in DOMAIN run.tasks : a < b => run.tasks[a] < run.tasks[b]
  /\ \A k \in RunDispatched : \A m \in 1..k : m \in RunDispatched
  /\ \A k \in RunDispatched : \A t \in JobTasks(job_id) :
        tasks[t].status = "pending" => run.tasks[k] < t

C15_SecondAfterFirst ==
  /\ pc = "create_task"
  /\ Len(run.tasks) = 2
  /\ run.i = 2
  /\ run.tasks[1] < run.tasks[2]
  /\ tasks[run.tasks[2]].status = "processing"

\* C16: execution is strictly serial: at most one task of the run is
\* 'processing' at any time, and while a task is in flight every task before
\* it in the run is 'completed' or 'failed' and has been counted.
C16_OneTaskInFlight ==
  /\ Cardinality({ k \in DOMAIN run.tasks :
                     tasks[run.tasks[k]].status = "processing" }) <= 1
  /\ pc \in { "create_task", "poll", "record" } =>
        /\ \A m \in DOMAIN run.tasks :
              m < run.i => tasks[run.tasks[m]].status \in { "completed", "failed" }
        /\ Counted(job_id) + 1 = hist.base + run.i

C16_SecondInFlightFirstCounted ==
  /\ pc = "poll"
  /\ result.polled
  /\ run.i = 2
  /\ tasks[run.tasks[1]].status = "failed"
  /\ tasks[run.tasks[2]].status = "processing"
  /\ jobs[job_id].failed_count = 1

\* C17: a run touches only the tasks that are 'pending' when it starts: the
\* list it fetches holds 'pending' tasks only, nothing changes a task record
\* between the entry of run_batch and the fetch, after the fetch no record
\* outside that list changes while the run lasts, and no step ever removes a
\* task record.
C17_OnlyPendingTouched ==
  [][ /\ Len(tasks') >= Len(tasks)
      /\ pc \in { "enter", "fetch" } => tasks' = tasks
      /\ (pc = "fetch" /\ pc' # "fetch") =>
            \A k \in DOMAIN run'.tasks : tasks[run'.tasks[k]].status = "pending"
      /\ (InRun /\ pc # "fetch") =>
            \A t \in DOMAIN tasks :
               (\A k \in DOMAIN run.tasks : run.tasks[k] # t) => tasks'[t] = tasks[t] ]_vars

C17_LeftoverKeptByRerun ==
  /\ pc = "returned"
  /\ hist.runs = 2
  /\ Len(tasks) = 2
  /\ tasks[1].status = "processing"
  /\ tasks[2].status = "completed"
  /\ run.tasks = << 2 >>

\* C18: a task that an interrupted run left 'processing' after the remote
\* service had accepted it is selected by the recheck (get_processing_tasks
\* finds it by its stored request id), so that check_all_tasks can finish it.
C18_LeftoverSelectedByRecheck ==
  ( /\ pc = "raised"
    /\ hist.handled # "none"
    /\ run.i \in DOMAIN run.tasks
    /\ tasks[run.tasks[run.i]].status = "processing"
    /\ result.task_id = RemoteId(run.tasks[run.i]) ) =>
     \E k \in DOMAIN get_processing_tasks(tasks, job_id) :
        get_processing_tasks(tasks, job_id)[k] = run.tasks[run.i]

\* C19: a file leaves the outfit folder only in the step after a failed task
\* whose error text is a content-policy error (not "HTTP 503", a timeout or a
\* missing text), with an error folder configured and an outfit path on the
\* task; it is that task's outfit file, it arrives in the error folder, and
\* the moved-image count of the run grows by one exactly when a file moved.
C19_MoveOnlyOnPolicyFailure ==
  [][ /\ files' # files =>
            /\ pc = "after"
            /\ ~Succeeded
            /\ tasks[run.tasks[run.i]].status = "failed"
            /\ error_msg \notin { ErrHTTP503, ErrTimeout, ErrUnknown, ErrTaskFailed }
            /\ _is_content_policy_error(error_msg)
            /\ config.error_folder # NULL
            /\ tasks[run.tasks[run.i]].outfit_image_path # NULL
            /\ files'.src = files.src \ { tasks[run.tasks[run.i]].outfit_image_path }
            /\ files'.src # files.src
            /\ Cardinality(files'.err) = Cardinality(files.err) + 1
      /\ pc = "after" =>
            run'.results.moved_images =
               run.results.moved_images + (IF files' # files THEN 1 ELSE 0) ]_vars

C19_PolicyMovedThen503Kept ==
  /\ pc = "returned"
  /\ Len(run.tasks) = 2
  /\ tasks[run.tasks[1]].error_message = ErrPolicy
  /\ tasks[run.tasks[2]].error_message = ErrHTTP503
  /\ run.results.moved_images = 1
  /\ files.src = {}
  /\ files.err = { Name(O1) }

\* the ledger rows of job j with hash h
LedgerRows(j, h) ==
  { k \in DOMAIN used_combinations :
       /\ used_combinations[k].batch_job_id = j
       /\ used_combinations[k].combination_hash = h }

\* C20: mark_combination_used is idempotent: whatever calls were made, each
\* (job, hash) that was marked once or more has exactly one ledger row and
\* every other pair has none, so (job, hash) is unique in the ledger.
C20_OneRowPerMarkedPair ==
  /\ \A k \in DOMAIN hist.marked :
        Cardinality(LedgerRows(hist.marked[k][1], hist.marked[k][2])) = 1
  /\ \A a, b \in DOMAIN used_combinations :
        ( /\ used_combinations[a].batch_job_id = used_combinations[b].batch_job_id
          /\ used_combinations[a].combination_hash = used_combinations[b].combination_hash )
           => a = b
  /\ \A k \in DOMAIN used_combinations :
        \E m \in DOMAIN hist.marked :
           hist.marked[m] = << used_combinations[k].batch_job_id,
                               used_combinations[k].combination_hash >>

C20_MarkedTwiceOneRow ==
  /\ Len(hist.marked) = 3
  /\ hist.marked[1] = hist.marked[2]
  /\ hist.marked[3] # hist.marked[1]
  /\ hist.marked[3][2] = hist.marked[1][2]
  /\ Len(used_combinations) = 2


----------------------------------------------------------------------------
(* C21: the ledger is scoped per job and append-only.  No step removes or   *)
(* changes a ledger row; a new row belongs to the job being prepared; a     *)
(* draw is rejected only when the job's own rows hold a hash, so rows of    *)
(* another job never make a selection retry.                                 *)

OwnRows(j) == { k \in DOMAIN used_combinations : used_combinations[k].batch_job_id = j }

C21_LedgerPerJobAppendOnly ==
  [][ /\ Len(used_combinations') >= Len(used_combinations)
      /\ \A k \in DOMAIN used_combinations : used_combinations'[k] = used_combinations[k]
      /\ \A k \in DOMAIN used_combinations' \ DOMAIN used_combinations :
            used_combinations'[k].batch_job_id = job_id
      /\ (pc = "select" /\ pc' = "select") => OwnRows(job_id) # {}
      /\ (pc = "select" /\ prep'.sel.fallback) => OwnRows(job_id) # {} ]_vars

\* the same combination is in the ledger once for each of two jobs
C21_SameCombinationInBothJobs ==
  \E a \in OwnRows(1), b \in OwnRows(2) :
     /\ used_combinations[a].combination_hash = used_combinations[b].combination_hash
     /\ Cardinality({ k \in DOMAIN used_combinations :
            used_combinations[k].combination_hash = used_combinations[a].combination_hash }) = 2

----------------------------------------------------------------------------
(* C22: get_random(exclude) of an image or prompt pool returns None when    *)
(* the pool is empty and when every entry of the pool is in exclude;        *)
(* otherwise it returns an entry of the pool that is not in exclude.        *)

Drawn == probe.fn = "get_random" /\ probe.done

DrawnFile == IF probe.kind = "prompt" /\ probe.out # NULL THEN probe.out[1] ELSE probe.out

C22_DrawRespectsExclude ==
  Drawn =>
    IF \A k \in DOMAIN probe.files : probe.files[k] \in probe.exclude
      THEN probe.out = NULL
      ELSE /\ \E k \in DOMAIN probe.files : probe.files[k] = DrawnFile
           /\ DrawnFile \notin probe.exclude

\* an entry was returned from a pool of which another entry was excluded
C22_DrawnPastExcluded ==
  /\ Drawn
  /\ probe.out # NULL
  /\ \E k \in DOMAIN probe.files : probe.files[k] \in probe.exclude

----------------------------------------------------------------------------
(* C25: the classifier is a pure predicate.  Its result is true exactly     *)
(* when the lower-cased message contains one of the keywords, false for an  *)
(* empty message, and the call changes nothing in the store, the folders or *)
(* the processor; "NSFW content detected" is a content-policy error and     *)
(* "HTTP 500 Internal Server Error" is not.                                  *)

Classified == probe.fn = "_is_content_policy_error" /\ probe.done

KeywordAt(msg, kw, k) ==
  /\ k + Len(kw) <= Len(msg)
  /\ \A n \in 1..Len(kw) : Lower(msg[k + n]) = kw[n]

C25_ClassifierIsKeywordTest ==
  Classified =>
    /\ probe.out = (\E n \in DOMAIN content_error_keywords :
                      \E k \in 0..Len(probe.error_message) :
                         KeywordAt(probe.error_message, content_error_keywords[n], k))
    /\ probe.error_message = NULL => probe.out = FALSE
    /\ probe.error_message = MsgNSFW => probe.out = TRUE
    /\ probe.error_message = MsgHTTP500 => probe.out = FALSE
    /\ jobs = <<>> /\ tasks = <<>> /\ used_combinations = <<>>
    /\ files = [ src |-> {}, err |-> {} ] /\ cache = {}
    /\ ~stop_flag /\ ~pause_flag /\ current_job_id = 0 /\ pc = "ready"

\* an upper-case keyword inside a longer message was classified
C25_UpperCaseKeywordFound ==
  /\ Classified
  /\ probe.out = TRUE
  /\ probe.error_message = MsgNSFW

----------------------------------------------------------------------------
(* C23: with three faces, two outfits, one background, a direct prompt,     *)
(* six images and duplicates disallowed, prepare_tasks creates six tasks    *)
(* whose (face, outfit) pairs are the six possible pairs, and no selection  *)
(* ends in the exhaustion tuple, whatever the draws are.                    *)

C23_SixDistinctPairs ==
  config = PairsScenario =>
    /\ ~prep.sel.fallback
    /\ \A k \in DOMAIN hist.built : ~hist.built[k].fallback
    /\ pc = "set_callback" =>
          /\ Len(tasks) = 6
          /\ { << tasks[k].face_image_path, tasks[k].outfit_image_path >> : k \in DOMAIN tasks }
                = { << f, o >> : f \in {F1, F2, F3}, o \in {O1, O2} }

----------------------------------------------------------------------------
(* C24: with a prompt folder of two files, five images and no image pool,   *)
(* a prompt file is drawn again only in an iteration where the draw with    *)
(* exclusion returned nothing.  With duplicates allowed (and every read     *)
(* succeeding) five tasks are created and some prompt file is used by two   *)
(* of them; with duplicates disallowed no prompt file is used by two tasks. *)

PromptFileOf(k) == hist.built[k].combo[4]

PromptReused ==
  \E a \in DOMAIN hist.built, b \in DOMAIN hist.built :
     a < b /\ PromptFileOf(a) # NULL /\ PromptFileOf(a) = PromptFileOf(b)

ReuseOnlyWhenExhausted ==
  (pc = "insert" /\ ~prep.sel.fallback /\ prep.sel.prompt_file \in prep.used_prompts)
     => SourceFiles(config.prompt_source) \subseteq prep.used_prompts

----------------------------------------------------------------------------
(* C26: a configuration error (no prompt text and no prompt folder, a count *)
(* below 1, or the API client not initialised) is rejected by               *)
(* start_batch_generation before any job or task record is created and      *)
(* before any remote call: the store stays as it was and the call ends with *)
(* the error message.                                                       *)

ConfigurationError ==
  \/ ~service.ready
  \/ config.prompt_template = NULL /\ config.prompt_source = <<>>
  \/ config.total_count < 1

C26_ConfigurationErrorRejected ==
  /\ ConfigurationError =>
        /\ pc \in {"ready", "rejected"}
        /\ jobs = <<>> /\ tasks = <<>> /\ used_combinations = <<>>
        /\ result = NoResult /\ hist.runs = 0 /\ current_job_id = 0
  /\ pc = "rejected" => ConfigurationError

\* a complete form was rejected because the client is missing
C26_RejectedWithoutClient ==
  /\ pc = "rejected"
  /\ ~service.ready
  /\ config.prompt_template # NULL
  /\ config.total_count >= 1

----------------------------------------------------------------------------
(* C27: _select_combination ends after at most 100 attempts and does not    *)
(* raise on exhaustion: when all 100 attempts hit used combinations it      *)
(* returns ("", "", "", "", prompt_template) and adds nothing to the        *)
(* ledger.                                                                  *)

ExhaustionTuple == [ NoSel EXCEPT !.prompt_content = config.prompt_template,
                                  !.fallback = TRUE ]

C27_ExhaustionReturnsFallback ==
  /\ [](/\ prep.attempt < max_attempts
         /\ prep.sel.fallback =>
               /\ pc = "insert"
               /\ prep.sel = ExhaustionTuple
               /\ prep.attempt = max_attempts - 1)
  /\ [][ (pc = "select" /\ prep.attempt = max_attempts - 1) =>
            /\ pc' = "insert"
            /\ prep'.sel.fallback => used_combinations' = used_combinations ]_vars

\* the hundredth attempt failed and the exhaustion tuple was returned
C27_HundredAttemptsFailed ==
  /\ pc = "insert"
  /\ prep.sel = ExhaustionTuple
  /\ prep.attempt = max_attempts - 1
  /\ used_combinations # <<>>

----------------------------------------------------------------------------
(* C28: with duplicates disallowed, a returned tuple that is not the        *)
(* exhaustion tuple had its hash absent from the ledger before the call and *)
(* present after it, the ledger grows by exactly one row per such return,   *)
(* and check-and-record is atomic: two selections for the same job, even if *)
(* interleaved, never both return the same tuple.                           *)

Returned(c) ==
  /\ probe.callers[c].at = "returned"
  /\ ~probe.callers[c].fallback
  /\ CheckDuplicates

RowsOf(c) ==
  { k \in DOMAIN used_combinations :
      /\ used_combinations[k].batch_job_id = probe.batch_job_id
      /\ used_combinations[k].combination_hash =
            _generate_combination_hash(NULL, probe.callers[c].outfit, NULL, NULL) }

\* what holds of every interleaving: the hash was absent when it was checked
\* and is in exactly one row after the return
C28_AbsentAtCheckPresentAfter ==
  /\ \A c \in Callers :
        Returned(c) =>
          /\ Cardinality(RowsOf(c)) = 1
          /\ \A k \in RowsOf(c) : probe.callers[c].seen < k
  /\ \A c \in Callers, d \in Callers :
        (c # d /\ Returned(c) /\ Returned(d)
           /\ probe.callers[c].outfit = probe.callers[d].outfit)
          => Len(used_combinations) = 1
  /\ Len(used_combinations) <=
        Cardinality({ c \in Callers : probe.callers[c].at = "returned" })

\* the second selection saw the row of the first, drew again and returned the other tuple
C28_RetriedPastUsedTuple ==
  /\ Returned(1) /\ Returned(2)
  /\ probe.callers[2].attempt > 0
  /\ probe.callers[1].outfit # probe.callers[2].outfit
  /\ Len(used_combinations) = 2

\* C28 as stated: no tuple is returned by both selections, one row per return
C28_NoTupleReturnedTwice ==
  /\ \A c \in Callers, d \in Callers :
        (c # d /\ Returned(c) /\ Returned(d))
          => probe.callers[c].outfit # probe.callers[d].outfit
  /\ Len(used_combinations) >= Cardinality({ c \in Callers : Returned(c) })

----------------------------------------------------------------------------
(* C29: with a non-empty prompt pool the prompt of a selection is drawn     *)
(* among the files not in used_prompts whenever there is such a file; only  *)
(* when every file is in used_prompts is it drawn again without exclusion.  *)
(* With no prompt pool the prompt file is empty and the content is the      *)
(* literal template.                                                        *)

UnusedPrompts == SourceFiles(config.prompt_source) \ prep.used_prompts

C29_PromptDrawnAmongUnused ==
  (pc = "insert" /\ ~prep.sel.fallback) =>
    IF config.prompt_source # <<>>
      THEN /\ prep.sel.prompt_file \in SourceFiles(config.prompt_source)
           /\ UnusedPrompts # {} => prep.sel.prompt_file \in UnusedPrompts
           /\ prep.sel.prompt_content \in { DiskContent(prep.sel.prompt_file), NULL }
      ELSE /\ prep.sel.prompt_file = NULL
           /\ prep.sel.prompt_content = config.prompt_template

\* the second selection took the one file the first had left
C29_SecondFileDrawn ==
  /\ pc = "insert"
  /\ ~prep.sel.fallback
  /\ Cardinality(prep.used_prompts) = 1
  /\ Cardinality(UnusedPrompts) = 1
  /\ prep.sel.prompt_file \in UnusedPrompts

----------------------------------------------------------------------------
(* C30: within one prepare_tasks call no prompt file is used by two created *)
(* tasks as long as the pool still has an unused file; when the pool holds  *)
(* at least total_count files, all created tasks come from pairwise         *)
(* distinct prompt files.                                                   *)

\* the tasks of the job under preparation, as indices of hist.built
Prepared == { k \in DOMAIN hist.built : tasks[k].batch_job_id = job_id }

C30_NoPromptTwiceWhileUnusedLeft ==
  /\ (pc = "insert" /\ prep.sel.prompt_file # NULL
         /\ \E k \in Prepared : PromptFileOf(k) = prep.sel.prompt_file)
        => UnusedPrompts = {}
  /\ (config.prompt_source # <<>> /\ Len(config.prompt_source) >= config.total_count)
        => \A a \in Prepared, b \in Prepared :
              /\ PromptFileOf(a) \in SourceFiles(config.prompt_source)
              /\ a # b => PromptFileOf(a) # PromptFileOf(b)

\* two tasks of one job were built from the two files of the pool
C30_TwoTasksTwoFiles ==
  /\ pc = "set_callback"
  /\ config.total_count = 2
  /\ Cardinality(Prepared) = 2
  /\ { PromptFileOf(k) : k \in Prepared } = SourceFiles(config.prompt_source)
  /\ Len(config.prompt_source) = 2

----------------------------------------------------------------------------
(* C31: prepare_tasks returns the number of task records it inserted, which *)
(* is total_count minus the number of iterations whose prompt was empty;    *)
(* every inserted task is 'pending'; each skipped iteration inserts no task *)
(* and emits one warning whose progress is (i / total_count) * 100.         *)

C31_CreatedCountAndWarnings ==
  (pc \in {"select", "insert", "set_callback"}) =>
    /\ prep.created_count = Len(tasks)
    /\ prep.created_count + Len(hist.warnings) = prep.i
    /\ pc = "set_callback" =>
          prep.created_count = config.total_count - Len(hist.warnings)
    /\ \A t \in DOMAIN tasks : tasks[t].status = "pending"
    /\ \A k \in DOMAIN hist.warnings :
          /\ hist.warnings[k].i < config.total_count
          /\ hist.warnings[k].progress[1] = hist.warnings[k].i * 100
          /\ hist.warnings[k].progress[2] = config.total_count
          /\ \A n \in DOMAIN hist.warnings :
                n < k => hist.warnings[n].i < hist.warnings[k].i

\* prepare_tasks returned fewer tasks than asked for, after a task and a skipped iteration
C31_ReturnedFewerThanAsked ==
  /\ pc = "set_callback"
  /\ prep.created_count = 1
  /\ config.total_count = 2
  /\ Len(hist.warnings) = 1
  /\ hist.warnings[1].i = 1

----------------------------------------------------------------------------
(* C32: between the outcome of one task and the dispatch of the next task   *)
(* of the same run the runner takes the request delay, and it takes none    *)
(* after the last task of the fetched list: the task at position i of the   *)
(* list is reached after exactly i - 1 delays, and a run never takes as     *)
(* many delays as it fetched tasks.                                         *)

InLoop == pc \in { "check_stop", "check_pause", "sleep", "dispatch", "create_task",
                   "poll", "record", "increment", "after", "delay" }

C32_DelayBetweenTasks ==
  /\ InLoop => hist.delays = run.i - 1
  /\ (InRun \/ pc = "returned") =>
        /\ Cardinality(RunDispatched) <= hist.delays + 1
        /\ hist.delays < Len(run.tasks) \/ hist.delays = 0
  /\ pc = "delay" => run.i < Len(run.tasks)

\* the second task is dispatched after one delay
C32_SecondDispatchAfterDelay ==
  /\ pc = "create_task"
  /\ run.i = 2
  /\ hist.delays = 1
  /\ tasks[run.tasks[1]].status \in {"completed", "failed"}

----------------------------------------------------------------------------
(* C33: generate_and_wait returns only with one of four outcomes: the       *)
(* creation failed (no poll was made), the task was observed 'completed'    *)
(* (success), the task was observed 'failed' (failure with its error), or   *)
(* the timeout elapsed (failure with the timeout error).  While the task is *)
(* not finished and the timeout has not elapsed it stays in the polling     *)
(* loop, and each poll hands the status it observed to the progress         *)
(* callback.                                                                *)

CreationFailed ==
  /\ ~result.polled /\ ~result.success
  /\ result.task_id = NULL /\ result.error \in service.refusals
  /\ result.notified = "none"

ObservedCompleted ==
  /\ result.polled /\ result.success /\ result.status = "completed"
  /\ result.notified = "completed"

ObservedFailed ==
  /\ result.polled /\ ~result.success /\ result.status = "failed"
  /\ result.error # NULL /\ result.notified = "failed"

TimedOut ==
  /\ result.polled /\ ~result.success /\ result.error = ErrTimeout
  /\ result.status = "unknown" /\ result.notified \in WaitingStates

C33_FourOutcomes ==
  /\ pc \in {"record", "increment", "after"} =>
        CreationFailed \/ ObservedCompleted \/ ObservedFailed \/ TimedOut
  /\ pc = "poll" =>
        /\ result.success /\ result.task_id # NULL /\ result.status = "pending"
        /\ result.polled <=> result.notified \in WaitingStates

\* the wait ended by the timeout after polls that found the task unfinished
C33_TimedOutAfterPolls ==
  /\ pc = "record"
  /\ TimedOut
  /\ result.task_id # NULL

\* the outfit images that have left their folder
Moved == SourceFiles(config.outfit_source) \ files.src

\* the name under which _move_error_image stores a clashing file at second ts
Suffixed(path, ts) == << Stem(path), "_", ts, path[3] >>

\* the task in hand failed with a content-policy error, the move was tried and
\* returned False with the file still in place (I/O error)
MoveFailed ==
  /\ pc \in { "delay", "final" }
  /\ run.i \in DOMAIN run.tasks
  /\ tasks[run.tasks[run.i]].status = "failed"
  /\ ~Succeeded
  /\ config.error_folder # NULL
  /\ _is_content_policy_error(error_msg)
  /\ tasks[run.tasks[run.i]].outfit_image_path \in files.src

\* C34: the error-image move never overwrites a file already in the error
\* folder: every file the folder held is still there, every moved image is
\* stored under a name of its own, and when its name was taken it is stored
\* under the timestamp-suffixed name; a failed move returns false without
\* raising: the task stays 'failed', the counters keep the failure, nothing is
\* counted as moved and the run goes on to the delay or to its end.
C34_MoveNeverOverwrites ==
  /\ hist.kept \subseteq files.err
  /\ Cardinality(files.err \ hist.kept) = Cardinality(Moved)
  /\ \A p \in Moved :
        IF Name(p) \in hist.kept
          THEN \E ts \in Timestamps : Suffixed(p, ts) \in files.err
          ELSE Name(p) \in files.err
  /\ MoveFailed =>
        /\ tasks[run.tasks[run.i]].error_message = error_msg
        /\ run.results.failed >= 1
        /\ jobs[job_id].failed_count >= 1
        /\ run.results.moved_images = 0
        /\ files.err = hist.kept

\* a clashing image has been stored under the suffixed name beside the old file
C34_StoredBesideOldFile ==
  /\ Name(O1) \in hist.kept
  /\ O1 \in Moved
  /\ run.results.moved_images = 1
  /\ Cardinality(files.err) = 2

\* a move has failed and the run has gone on to the next task
C34_RunGoesOnAfterFailedMove ==
  /\ MoveFailed
  /\ pc = "delay"
\* C35: the read-through cache of the prompt pool reads each prompt file path
\* from disk at most once in the lifetime of the PromptSource, whatever the
\* sequence of get_random and get_content calls, and a failed read yields
\* empty content without raising.
C35_EachPathReadAtMostOnce ==
  probe.fn = "_read_file" =>
    /\ \A f \in DOMAIN probe.reads : probe.reads[f] <= 1
    /\ probe.out # NULL => probe.out[2] \in { NULL, DiskContent(probe.out[1]) }

\* what does hold: a path whose read has succeeded is never read again, and a
\* failed read yields empty content
C35_NoReadOnceCached ==
  [][ probe.fn = "_read_file" =>
        \A f \in CachedPaths : probe'.reads[f] = probe.reads[f] ]_vars
\* the tasks of the job in hand that are 'pending' now
StillPending == { t \in JobTasks(job_id) : tasks[t].status = "pending" }

\* C36: on normal return of run_batch the summary has total = the number of
\* tasks that were 'pending' when the run fetched them, completed + failed <=
\* total, and stopped = false exactly when completed + failed = total, every
\* fetched task then having been dispatched and having reached a terminal status.
C36_SummaryOnReturn ==
  pc = "returned" =>
    LET r == run.results
    IN /\ r.total = Len(run.tasks)
       /\ r.total = Cardinality(StillPending) + Cardinality(RunDispatched)
       /\ r.completed + r.failed <= r.total
       /\ r.completed + r.failed = Cardinality(RunDispatched)
       /\ (r.stopped = FALSE) <=> (r.completed + r.failed = r.total)
       /\ r.stopped = FALSE =>
             \A k \in DOMAIN run.tasks :
                tasks[run.tasks[k]].status \in { "completed", "failed" }

\* a run stopped after its first task has returned its summary
C36_StoppedShortOfTotal ==
  /\ pc = "returned"
  /\ run.results.stopped
  /\ run.results.total = 2
  /\ run.results.completed + run.results.failed = 1
\* C37: run_batch clears the stop flag on entry and leaves the pause flag as it
\* is: a stop() issued before the run starts is discarded, the run is stopped
\* only by a stop() issued after the clearing; a pause() left set from before
\* the run holds the run before its first dispatch until resume() or stop().
C37_StopClearedPauseKept ==
  /\ [][ pc = "enter" /\ pc' # "enter" =>
            stop_flag' = FALSE /\ pause_flag' = pause_flag ]_vars
  /\ []((InRun \/ pc \in { "final", "returned" }) /\ run.results.stopped => stop_flag)
  /\ [][ pc # "dispatch" /\ pc' = "dispatch" => ~pause_flag ]_vars
  /\ [][ pc = "sleep" /\ pc' # "sleep" =>
            IF stop_flag THEN pc' = "final" /\ run'.results.stopped
                         ELSE pc' = "check_pause" ]_vars

\* a run entered with both flags set is held before its first dispatch, the
\* stop of before the run forgotten
C37_HeldBeforeFirstDispatch ==
  /\ probe.fn = "run_batch"
  /\ probe.stop /\ probe.pause
  /\ pc = "sleep"
  /\ ~stop_flag /\ pause_flag
  /\ run.i = 1
  /\ RunDispatched = {}

\* a run entered with the stop flag set has gone through all its tasks
C37_EarlierStopDiscarded ==
  /\ probe.fn = "run_batch"
  /\ probe.stop
  /\ pc = "returned"
  /\ ~run.results.stopped
  /\ run.results.completed + run.results.failed = MaxCount
\* run_batch has returned or raised
Terminated == pc \in { "returned", "raised" }

\* the assumption of C38 as it is worded: a pause that is set is eventually
\* cleared, or stop is eventually set
PauseEventuallyCleared == [](pause_flag => <>(~pause_flag \/ stop_flag))

\* the assumption the pause loop needs: while the run waits, stop is eventually
\* set or the pause flag is eventually cleared for good
PauseEventuallyStaysCleared == [](pc = "sleep" => <>(stop_flag \/ [](~pause_flag)))

\* C38: run_batch eventually terminates (returns or raises) provided every
\* remote create/query call returns and whenever pause is set it is eventually
\* cleared or stop is eventually set.
C38_TerminatesIfPauseCleared ==
  PauseEventuallyCleared => [](InRun => <>Terminated)

\* C38 (amended): run_batch eventually terminates provided every remote call
\* returns and, while the run waits in the pause loop, stop is eventually set
\* or the pause flag is eventually cleared and stays cleared; a pause flag that
\* is cleared and set again between two looks of the loop does not release it.
C38_TerminatesIfPauseStaysCleared ==
  PauseEventuallyStaysCleared => [](InRun => <>Terminated)

\* without the assumption on pause the run waits with the job 'running'
C38_BlockedWhileRunning ==
  /\ pc = "sleep"
  /\ pause_flag /\ ~stop_flag
  /\ jobs[job_id].status = "running"
  /\ RunDispatched = {}
\* the tasks of the run in hand that have failed, and their outfit paths
RunFailed == { k \in DOMAIN run.tasks : tasks[run.tasks[k]].status = "failed" }

FailedOutfits == { tasks[run.tasks[k]].outfit_image_path : k \in RunFailed } \ { NULL }

\* C39: within one run each outfit file is moved to the error folder at most
\* once, even when several tasks reference the same outfit path and all fail
\* with content-policy errors: moved_images exceeds neither the number of
\* distinct outfit paths among the failed tasks nor the failed count, and a
\* path that has been moved is gone from its folder.
C39_MovedAtMostOncePerPath ==
  /\ run.results.moved_images <= Cardinality(FailedOutfits)
  /\ run.results.moved_images <= run.results.failed
  /\ run.results.moved_images <= Cardinality(Moved)
  /\ run.results.moved_images > 0 => FailedOutfits \cap files.src = {}

\* two tasks with the same outfit have failed on content policy, one move counted
C39_TwoFailuresOneMove ==
  /\ pc = "returned"
  /\ run.results.failed = 2
  /\ Cardinality(RunFailed) = 2
  /\ \A k \in RunFailed : _is_content_policy_error(tasks[run.tasks[k]].error_message)
  /\ FailedOutfits = { O1 }
  /\ run.results.moved_images = 1
\* the tasks of job j that carry the given status
WithStatus(j, status) == { t \in JobTasks(j) : tasks[t].status = status }

\* the counters of job j are at most the numbers of its finished tasks
CountersAtMost(j) ==
  /\ jobs[j].completed_count <= Cardinality(WithStatus(j, "completed"))
  /\ jobs[j].failed_count <= Cardinality(WithStatus(j, "failed"))

\* the counters of job j are the numbers of its finished tasks
CountersExact(j) ==
  /\ jobs[j].completed_count = Cardinality(WithStatus(j, "completed"))
  /\ jobs[j].failed_count = Cardinality(WithStatus(j, "failed"))

\* C40: in every reachable state (between the two store writes of a task
\* outcome and after a run aborted by an exception too) a job's completed_count
\* is at most the number of its tasks with status 'completed' and failed_count
\* at most the number with status 'failed'; both are equalities whenever
\* run_batch has returned normally.
C40_CountersMatchOnReturn ==
  /\ \A j \in DOMAIN jobs : CountersAtMost(j)
  /\ pc = "returned" => CountersExact(job_id)

\* C40 (amended): the counters are at most the numbers of tasks with the
\* matching status in every reachable state; they are equal when run_batch has
\* returned normally and no run of the job was aborted between the write of a
\* task outcome and the write of its counter.
C40_CountersMatchUnlessTorn ==
  /\ \A j \in DOMAIN jobs : CountersAtMost(j)
  /\ pc = "returned" /\ ~hist.torn => CountersExact(job_id)

\* a second run has returned normally after a first run that was aborted
\* between the two writes: one finished task is in no counter
C40_ReturnedAfterTornRun ==
  /\ pc = "returned"
  /\ hist.torn
  /\ hist.runs = 2
  /\ ~run.results.stopped
  /\ run.results.total = 1
  /\ Counted(job_id) = 1
  /\ Cardinality(WithStatus(job_id, "completed") \cup WithStatus(job_id, "failed")) = 2
====
